---- MODULE Spec2Model ----
\* Scholarship scraper: ScraperOrchestrator.scrapeAll over a p-limit pool,
\* RetryHandler.executeWithRetry, RateLimiter.throttle and the extractors'
\* scrape() error handling.
EXTENDS Integers, Sequences, FiniteSets, TLC

----------------------------------------------------------------------------
\* Bounds of the model

MaxSources == 3
MaxConcurrency == 2
MaxRetries == 1
MaxRetriesSingle == 3
MaxCallers == 3
MaxTicks == 6
MaxRuns == 2
MaxFragments == 3
MaxListLen == 2
MaxDaysAhead == 93
MaxLiveSources == 2

----------------------------------------------------------------------------
\* Values

Undefined == "<undefined>"

Min(a, b) == IF a <= b THEN a ELSE b

\* String.prototype.trim on a string held as a sequence of characters
Trim(s) ==
  LET kept == { i \in 1..Len(s) : s[i] # " " }
  IN IF kept = {} THEN <<>>
     ELSE SubSeq(s, CHOOSE i \in kept : \A j \in kept : i <= j,
                    CHOOSE i \in kept : \A j \in kept : i >= j)

\* the retry policies and delay pairs a run is configured with
DefaultRetry == [retries |-> 3, baseDelay |-> 1000, maxDelay |-> 10000]

\* granularity of the clock, and Date.now() when the first caller arrives: the
\* epoch clock is far beyond any interval
ClockStep == 250
StartOfRun == 100000

Max(a, b) == IF a >= b THEN a ELSE b

\* what the I/O of one scrape() invocation does: fails with an Error (once
\* fetchHTML / navigateToPage have used up their own retries) or yields the
\* raw records of the page
IoOutcomes(scraper) ==
  LET \* transient errors of the I/O, by the message of the Error raised
      ioErrorMessages ==
        IF scraper.kind = "static"
        THEN {"fetch failed", "HTTP 503: Service Unavailable"}
        ELSE {"Navigation timeout of 45000 ms exceeded"}
      \* the raw record lists the page can yield: well-typed records, or a
      \* record whose name the selectors did not find among them
      a == [name |-> <<" ", "a">>, source |-> scraper.name]
      b == [name |-> <<"b", " ">>, source |-> scraper.name]
      nameless == [source |-> scraper.name]
      rawLists == IF scraper.page = "typed" THEN { <<>>, <<b, a>> }
                  ELSE { <<b, nameless, a>>, <<nameless>> }
  IN { [ok |-> FALSE, message |-> m, raw |-> <<>>] : m \in ioErrorMessages }
     \cup { [ok |-> TRUE, message |-> Undefined, raw |-> l] : l \in rawLists }

MkError(name, message, src, at) ==
  [name |-> name, message |-> message, src |-> src, at |-> at]

NoError == MkError(Undefined, Undefined, 0, 0)

----------------------------------------------------------------------------
\* Strings of the library functions: a string is the sequence of its
\* characters, a value that may be null or undefined carries its type

Chars(str) == [i \in 1..Len(str) |-> SubSeq(str, i, i)]

\* a string (type "string"), null or undefined
JsValue(type, text) == [type |-> type, text |-> text]

\* !value of a string, null or undefined
Falsy(v) == v.type # "string" \/ v.text = <<>>

\* \d of a regular expression
IsDigit(c) == c \in {"0", "1", "2", "3", "4", "5", "6", "7", "8", "9"}

DigitValue(c) == CHOOSE d \in 0..9 : ToString(d) = c

\* \s of a regular expression
IsSpace(c) == c = " "

LowerOf ==
  LET upper == Chars("ABCDEFGHIJKLMNOPQRSTUVWXYZ")
      lower == Chars("abcdefghijklmnopqrstuvwxyz")
  IN [c \in {upper[k] : k \in 1..26} |-> lower[CHOOSE k \in 1..26 : upper[k] = c]]

UpperOf ==
  LET upper == Chars("ABCDEFGHIJKLMNOPQRSTUVWXYZ")
      lower == Chars("abcdefghijklmnopqrstuvwxyz")
  IN [c \in {lower[k] : k \in 1..26} |-> upper[CHOOSE k \in 1..26 : lower[k] = c]]

\* String.prototype.toLowerCase
ToLowerCase(s) ==
  [i \in 1..Len(s) |-> IF s[i] \in DOMAIN LowerOf THEN LowerOf[s[i]] ELSE s[i]]

\* s.startsWith(t, at - 1)
MatchesAt(s, t, at) ==
  /\ at + Len(t) - 1 <= Len(s)
  /\ \A k \in 1..Len(t) : s[at + k - 1] = t[k]

\* String.prototype.includes
Includes(s, t) == \E at \in 1..(Len(s) + 1) : MatchesAt(s, t, at)

\* the positions of s that hold a member of chars
Positions(s, chars) == { i \in 1..Len(s) : s[i] \in chars }

First(positions) == CHOOSE i \in positions : \A j \in positions : i <= j

AllDigits(s) == \A i \in 1..Len(s) : IsDigit(s[i])

\* parseInt of a string of digits
RECURSIVE ParseInt(_)
ParseInt(ds) ==
  IF ds = <<>> THEN 0
  ELSE 10 * ParseInt(SubSeq(ds, 1, Len(ds) - 1)) + DigitValue(ds[Len(ds)])

\* every sequence of at most n members of `set`
RECURSIVE SeqsUpTo(_, _)
SeqsUpTo(set, n) ==
  IF n = 0 THEN { <<>> }
  ELSE LET shorter == SeqsUpTo(set, n - 1)
       IN shorter \cup { Append(q, x) : q \in shorter, x \in set }

\* the texts made of at most n of the given fragments
Texts(fragments, n) ==
  LET concat(parts) ==
        LET F[k \in 0..Len(parts)] == IF k = 0 THEN <<>> ELSE F[k - 1] \o parts[k]
        IN F[Len(parts)]
  IN { concat(q) : q \in SeqsUpTo({ Chars(f) : f \in fragments }, n) }

----------------------------------------------------------------------------
\* AmountParser (lib/DataNormalizer.ts)

\* a number is its integer part and its decimal digits without trailing
\* zeros; `value` is <<>> for null and <<number>> otherwise
Null == <<>>

Number(whole, frac) == <<[whole |-> whole, frac |-> frac]>>

ParsedAmount(value, isRange, isFullTuition, isVariable, originalText) ==
  [value |-> value, isRange |-> isRange, isFullTuition |-> isFullTuition,
   isVariable |-> isVariable, originalText |-> originalText]

FullCoverageKeywords ==
  { Chars(k) : k \in {"full tuition", "full coverage", "full funding",
                      "fully funded", "complete funding", "total coverage"} }

VariableKeywords ==
  { Chars(k) : k \in {"varies", "variable", "tbd", "to be determined",
                      "not specified", "contact", "inquire"} }

CurrencySymbols == {"$", "£", "€", "¥", "₹"}

\* isFullCoverage(text)
IsFullCoverage(text) ==
  /\ text # <<>>
  /\ LET normalizedText == Trim(ToLowerCase(text))
     IN \E keyword \in FullCoverageKeywords : Includes(normalizedText, keyword)

\* variableKeywords.some(keyword => normalizedText.includes(keyword))
IsVariableAmount(normalizedText) ==
  \E keyword \in VariableKeywords : Includes(normalizedText, keyword)

\* /up\s+to/i
UpToPattern(s) ==
  LET low == ToLowerCase(s) IN
  \E i \in 1..Len(s) :
    /\ MatchesAt(low, <<"u", "p">>, i)
    /\ \E j \in (i + 3)..Len(s) :
         /\ \A x \in (i + 2)..(j - 1) : IsSpace(s[x])
         /\ MatchesAt(low, <<"t", "o">>, j)

\* /between\s+/i
BetweenPattern(s) ==
  LET low == ToLowerCase(s) IN
  \E i \in 1..Len(s) :
    /\ MatchesAt(low, Chars("between"), i)
    /\ i + 7 <= Len(s)
    /\ IsSpace(s[i + 7])

\* isRangeFormat(text)
IsRangeFormat(text) ==
  LET s == text
      low == ToLowerCase(text)
      \* /\d[\d,]*\s*-\s*[\$£€¥₹]?\d/
      rangeDashPattern ==
        \E i \in 1..Len(s) :
          /\ IsDigit(s[i])
          /\ \E j \in (i + 1)..Len(s) :
               /\ \A x \in (i + 1)..(j - 1) : IsDigit(s[x]) \/ s[x] = ","
               /\ \E k \in j..Len(s) :
                    /\ \A x \in j..(k - 1) : IsSpace(s[x])
                    /\ s[k] = "-"
                    /\ \E l \in (k + 1)..Len(s) :
                         /\ \A x \in (k + 1)..(l - 1) : IsSpace(s[x])
                         /\ \/ IsDigit(s[l])
                            \/ /\ s[l] \in CurrencySymbols
                               /\ l + 1 <= Len(s)
                               /\ IsDigit(s[l + 1])
      \* /\d\s+to\s+\d/i
      rangeToPattern ==
        \E i \in 1..Len(s) :
          /\ IsDigit(s[i])
          /\ \E j \in (i + 2)..Len(s) :
               /\ \A x \in (i + 1)..(j - 1) : IsSpace(s[x])
               /\ MatchesAt(low, <<"t", "o">>, j)
               /\ \E k \in (j + 3)..Len(s) :
                    /\ \A x \in (j + 2)..(k - 1) : IsSpace(s[x])
                    /\ IsDigit(s[k])
  IN /\ text # <<>>
     /\ \/ rangeDashPattern
        \/ rangeToPattern
        \/ UpToPattern(text)
        \/ BetweenPattern(text)

\* the position after the match of /\d+(?:,\d{3})*(?:\.\d+)?/ at digit i
NumberEnd(s, i) ==
  LET \* the position after the digits that start at position p
      digitsEnd(p) == CHOOSE j \in p..(Len(s) + 1) :
                        /\ \A x \in p..(j - 1) : IsDigit(s[x])
                        /\ j <= Len(s) => ~IsDigit(s[j])
      \* a group ,\d{3} at position p
      group(p) == /\ p + 3 <= Len(s)
                  /\ s[p] = ","
                  /\ \A k \in 1..3 : IsDigit(s[p + k])
      afterDigits == digitsEnd(i)
      groups == CHOOSE n \in 0..Len(s) :
                  /\ \A g \in 0..(n - 1) : group(afterDigits + 4 * g)
                  /\ ~group(afterDigits + 4 * n)
      afterGroups == afterDigits + 4 * groups
  IN IF /\ afterGroups + 1 <= Len(s)
        /\ s[afterGroups] = "."
        /\ IsDigit(s[afterGroups + 1])
     THEN digitsEnd(afterGroups + 1)
     ELSE afterGroups

\* cleaned.match(numberPattern) with the g flag, from position i on
RECURSIVE NumberMatches(_, _)
NumberMatches(s, i) ==
  IF i > Len(s) THEN <<>>
  ELSE IF IsDigit(s[i])
       THEN <<SubSeq(s, i, NumberEnd(s, i) - 1)>> \o NumberMatches(s, NumberEnd(s, i))
       ELSE NumberMatches(s, i + 1)

\* extractAllNumericValues(text)
ExtractAllNumericValues(text) ==
  LET \* text.replace(/[£€$¥₹]/g, '')
      cleaned == SelectSeq(text, LAMBDA c : c \notin CurrencySymbols)
      matches == NumberMatches(cleaned, 1)
      \* parseFloat(match.replace(/,/g, '')) of a match of the number pattern
      parseFloat(match) ==
        LET plain == SelectSeq(match, LAMBDA c : c # ",")
            dots == Positions(plain, {"."})
            dot == IF dots = {} THEN Len(plain) + 1 ELSE First(dots)
            decimals == SubSeq(plain, dot + 1, Len(plain))
            kept == CHOOSE n \in 0..Len(decimals) :
                      /\ n = 0 \/ decimals[n] # "0"
                      /\ \A x \in (n + 1)..Len(decimals) : decimals[x] = "0"
        IN [whole |-> ParseInt(SubSeq(plain, 1, dot - 1)),
            frac |-> SubSeq(decimals, 1, kept)]
  IN [k \in 1..Len(matches) |-> parseFloat(matches[k])]

\* a <= b for numbers
NumLeq(a, b) ==
  LET \* decimal digit strings read as fractions
      fracLeq(x, y) ==
        \/ Len(x) <= Len(y) /\ \A k \in 1..Len(x) : x[k] = y[k]
        \/ \E i \in 1..Min(Len(x), Len(y)) :
             /\ \A k \in 1..(i - 1) : x[k] = y[k]
             /\ DigitValue(x[i]) < DigitValue(y[i])
  IN \/ a.whole < b.whole
     \/ a.whole = b.whole /\ fracLeq(a.frac, b.frac)

\* Math.max(...numbers)
RECURSIVE MathMax(_)
MathMax(numbers) ==
  IF Len(numbers) = 1 THEN numbers[1]
  ELSE LET rest == MathMax(Tail(numbers))
       IN IF NumLeq(rest, Head(numbers)) THEN Head(numbers) ELSE rest

\* the first number instead of the largest
ExtractMaxFromRange_First(rangeString) ==
  LET numbers == ExtractAllNumericValues(rangeString)
  IN IF numbers = <<>> THEN Null ELSE <<numbers[1]>>

\* extractMaxFromRange(rangeString)
ExtractMaxFromRange(rangeString) ==
  IF rangeString = <<>> THEN Null
  ELSE LET numbers == ExtractAllNumericValues(rangeString)
       IN IF Len(numbers) = 0 THEN Null
          ELSE IF Len(numbers) = 1 THEN <<numbers[1]>>
          ELSE <<MathMax(numbers)>>

\* the last return of parse: range or single value
ParseNumeric(text) ==
  LET isRange == IsRangeFormat(text)
      \* extractNumericValue(text)
      numbers == ExtractAllNumericValues(text)
      extractNumericValue ==
        IF text = <<>> THEN Null
        ELSE IF Len(numbers) = 0 THEN Null ELSE <<numbers[1]>>
      value == IF isRange THEN ExtractMaxFromRange(text) ELSE extractNumericValue
  IN ParsedAmount(value, isRange, FALSE, FALSE, text)

\* the variable keywords looked for before the full-coverage ones
Parse_VariableFirst(amountString) ==
  IF Falsy(amountString)
  THEN ParsedAmount(Null, FALSE, FALSE, FALSE, <<>>)
  ELSE LET text == amountString.text
           normalizedText == Trim(ToLowerCase(text))
       IN IF IsVariableAmount(normalizedText)
          THEN ParsedAmount(Null, FALSE, FALSE, TRUE, text)
          ELSE IF IsFullCoverage(normalizedText)
          THEN ParsedAmount(Null, FALSE, TRUE, FALSE, text)
          ELSE ParseNumeric(text)

\* originalText left empty on every path
Parse_EmptyOriginal(amountString) ==
  IF Falsy(amountString)
  THEN ParsedAmount(Null, FALSE, FALSE, FALSE, <<>>)
  ELSE LET text == amountString.text
           normalizedText == Trim(ToLowerCase(text))
       IN IF IsFullCoverage(normalizedText)
          THEN ParsedAmount(Null, FALSE, TRUE, FALSE, <<>>)
          ELSE IF IsVariableAmount(normalizedText)
          THEN ParsedAmount(Null, FALSE, FALSE, TRUE, <<>>)
          ELSE [ParseNumeric(text) EXCEPT !.originalText = <<>>]

\* parse(amountString)
Parse(amountString) ==
  IF Falsy(amountString)
  THEN ParsedAmount(Null, FALSE, FALSE, FALSE, <<>>)
  ELSE LET text == amountString.text
           normalizedText == Trim(ToLowerCase(text))
       IN IF IsFullCoverage(normalizedText)
          THEN ParsedAmount(Null, FALSE, TRUE, FALSE, text)
          ELSE IF IsVariableAmount(normalizedText)
          THEN ParsedAmount(Null, FALSE, FALSE, TRUE, text)
          ELSE ParseNumeric(text)

----------------------------------------------------------------------------
\* DataNormalizer.normalizeDegree

\* the entries of degreeMapping in the order they are written: <<key, level>>
DegreeMapping ==
  LET entry(key, level) == <<Chars(key), Chars(level)>>
  IN << entry("bachelor", "Bachelors"), entry("bachelors", "Bachelors"),
        entry("undergraduate", "Bachelors"), entry("undergrad", "Bachelors"),
        entry("bs", "Bachelors"), entry("ba", "Bachelors"), entry("bsc", "Bachelors"),
        entry("master", "Masters"), entry("masters", "Masters"),
        entry("graduate", "Masters"), entry("grad", "Masters"), entry("ms", "Masters"),
        entry("ma", "Masters"), entry("msc", "Masters"), entry("m.s.", "Masters"),
        entry("m.a.", "Masters"),
        entry("phd", "PhD"), entry("ph.d.", "PhD"), entry("ph.d", "PhD"),
        entry("doctorate", "PhD"), entry("doctoral", "PhD"), entry("doctor", "PhD"),
        entry("postdoc", "Postdoc"), entry("postdoctoral", "Postdoc"),
        entry("post-doctoral", "Postdoc"), entry("post-doc", "Postdoc") >>

\* splitDegrees(degree): the pieces of degree.split(/[\/|&]|\band\b|\bor\b/i)
\* (the text before each match and the text after the last one), trimmed,
\* the empty ones left out
SplitDegrees(degree) ==
  LET s == degree
      low == ToLowerCase(s)
      \* \w of a regular expression
      isWordChar(c) ==
        \/ IsDigit(c)
        \/ c = "_"
        \/ c \in DOMAIN LowerOf
        \/ c \in DOMAIN UpperOf
      \* \b before position i
      wordBoundary(i) ==
        (i - 1 >= 1 /\ isWordChar(s[i - 1])) # (i <= Len(s) /\ isWordChar(s[i]))
      word(w, i) == /\ MatchesAt(low, w, i)
                    /\ wordBoundary(i)
                    /\ wordBoundary(i + Len(w))
      \* the length of the match of the separators at position i, or 0
      separatorAt(i) ==
        IF s[i] \in {"/", "|", "&"} THEN 1
        ELSE IF word(<<"a", "n", "d">>, i) THEN 3
        ELSE IF word(<<"o", "r">>, i) THEN 2
        ELSE 0
      F[i \in 1..(Len(s) + 1)] ==
        \* <<pieces completed before position i, piece open at i, first i not yet matched>>
        IF i = 1 THEN <<<<>>, <<>>, 1>>
        ELSE LET prev == F[i - 1]
                 at == i - 1
             IN IF at < prev[3] THEN prev
                ELSE IF separatorAt(at) > 0
                THEN <<Append(prev[1], prev[2]), <<>>, at + separatorAt(at)>>
                ELSE <<prev[1], Append(prev[2], s[at]), at + 1>>
      last == F[Len(s) + 1]
      pieces == Append(last[1], last[2])
      trimmed == [k \in 1..Len(pieces) |-> Trim(pieces[k])]
  IN SelectSeq(trimmed, LAMBDA d : Len(d) > 0)

\* capitalizeWords(str): the first character of every word of str.split(' ')
\* in upper case, the others in lower case
CapitalizeWords(str) ==
  [i \in 1..Len(str) |->
     IF i = 1 \/ str[i - 1] = " "
     THEN (IF str[i] \in DOMAIN UpperOf THEN UpperOf[str[i]] ELSE str[i])
     ELSE (IF str[i] \in DOMAIN LowerOf THEN LowerOf[str[i]] ELSE str[i])]

\* normalizeDegreeLevel(degree)
NormalizeDegreeLevel(degree) ==
  LET normalized == ToLowerCase(Trim(degree))
      exact == { k \in 1..Len(DegreeMapping) : DegreeMapping[k][1] = normalized }
      partial == { k \in 1..Len(DegreeMapping) : Includes(normalized, DegreeMapping[k][1]) }
  IN IF exact # {} THEN DegreeMapping[First(exact)][2]
     ELSE IF partial # {} THEN DegreeMapping[First(partial)][2]
     ELSE CapitalizeWords(degree)

\* the list as it is, duplicates included
SetInOrder_Keep(list) == list

\* [...new Set(list)]: the first occurrence of every member, in order
SetInOrder(list) ==
  LET keep(i) == \A j \in 1..(i - 1) : list[j] # list[i]
      F[i \in 0..Len(list)] ==
        IF i = 0 THEN <<>>
        ELSE IF keep(i) THEN Append(F[i - 1], list[i]) ELSE F[i - 1]
  IN F[Len(list)]

\* normalizeDegree(degree), degree being a string or an array of strings
NormalizeDegree(degree) ==
  LET degrees == IF degree.isArray THEN degree.items ELSE <<degree.items[1]>>
      \* degrees.flatMap(d => this.splitDegrees(d))
      flat[k \in 0..Len(degrees)] ==
        IF k = 0 THEN <<>> ELSE flat[k - 1] \o SplitDegrees(degrees[k])
      pieces == flat[Len(degrees)]
      normalized == [k \in 1..Len(pieces) |-> NormalizeDegreeLevel(pieces[k])]
  IN SetInOrder(normalized)

----------------------------------------------------------------------------
\* Date: a time value is a day number (days since 1970-01-01, UTC) and the
\* milliseconds into that day; Invalid Date has valid = FALSE

MsPerMinute == 60000
MsPerHour == 3600000
MsPerDay == 86400000

InvalidDate == [valid |-> FALSE, day |-> 0, ms |-> 0]

TimeValue(day, ms) == [valid |-> TRUE, day |-> day, ms |-> ms]

\* time value t moved by delta milliseconds
AddMs(t, delta) ==
  LET total == t.ms + delta
  IN TimeValue(t.day + total \div MsPerDay, total % MsPerDay)

\* the day number of a date of the proleptic Gregorian calendar (month 1..12)
DaysFromCivil(year, month, day) ==
  LET y == IF month <= 2 THEN year - 1 ELSE year
      era == y \div 400
      yoe == y - era * 400
      mp == (month + 9) % 12
      doy == (153 * mp + 2) \div 5 + day - 1
      doe == yoe * 365 + yoe \div 4 - yoe \div 100 + doy
  IN era * 146097 + doe - 719468

IsLeapYear(year) == year % 4 = 0 /\ (year % 100 # 0 \/ year % 400 = 0)

\* The time zone of the process: minutes east of UTC in standard time and,
\* where daylight saving time is observed, the local days of 2024 on which
\* clocks go forward (02:00 -> 03:00) and back (02:00 -> 01:00)
TimeZones ==
  { [name |-> "UTC", offset |-> 0, dst |-> FALSE, forward |-> 0, back |-> 0],
    [name |-> "Asia/Kolkata", offset |-> 330, dst |-> FALSE, forward |-> 0, back |-> 0],
    [name |-> "America/New_York", offset |-> -300, dst |-> TRUE,
     forward |-> DaysFromCivil(2024, 3, 10), back |-> DaysFromCivil(2024, 11, 3)] }

\* minutes east of UTC at a time value
OffsetAt(tz, t) ==
  LET start == AddMs(TimeValue(tz.forward, 0), 2 * MsPerHour - tz.offset * MsPerMinute)
      end == AddMs(TimeValue(tz.back, 0), MsPerHour - tz.offset * MsPerMinute)
      before(a, b) == a.day < b.day \/ (a.day = b.day /\ a.ms < b.ms)
  IN tz.offset + (IF tz.dst /\ ~before(t, start) /\ before(t, end) THEN 60 ELSE 0)

\* the time value of hh:mm:ss.sss local time on a local day
LocalTime(tz, localDay, ms) ==
  LET \* minutes east of UTC at 00:00 local time of the local day
      offsetAtMidnight ==
        tz.offset + (IF tz.dst /\ tz.forward < localDay /\ localDay <= tz.back THEN 60 ELSE 0)
      atMidnight == AddMs(TimeValue(localDay, 0), -offsetAtMidnight * MsPerMinute)
      guess == AddMs(atMidnight, ms)
  IN AddMs(guess, (offsetAtMidnight - OffsetAt(tz, guess)) * MsPerMinute)

\* the local day a time value falls on: getFullYear / getMonth / getDate
LocalDay(tz, t) == AddMs(t, OffsetAt(tz, t) * MsPerMinute).day

\* new Date(year, monthIndex, day): local midnight; a year 0..99 is 1900 + year,
\* a month index or day out of range rolls over
NewDate(tz, year, monthIndex, day) ==
  LET fullYear == IF year >= 0 /\ year <= 99 THEN 1900 + year ELSE year
      y == fullYear + monthIndex \div 12
      m == monthIndex % 12
  IN LocalTime(tz, DaysFromCivil(y, m + 1, 1) + day - 1, 0)

\* n in decimal, at least `width` digits
RECURSIVE Pad(_, _)
Pad(n, width) ==
  IF width <= 1 /\ n < 10 THEN <<ToString(n)>>
  ELSE Append(Pad(n \div 10, width - 1), ToString(n % 10))

\* Date.prototype.toISOString of a valid date
ToISOString(date) ==
  LET \* the calendar date of the day number
      z == date.day + 719468
      era == z \div 146097
      doe == z - era * 146097
      yoe == (doe - doe \div 1460 + doe \div 36524 - doe \div 146096) \div 365
      doy == doe - (365 * yoe + yoe \div 4 - yoe \div 100)
      mp == (5 * doy + 2) \div 153
      month == IF mp < 10 THEN mp + 3 ELSE mp - 9
      day == doy - (153 * mp + 2) \div 5 + 1
      civilYear == yoe + era * 400 + (IF month <= 2 THEN 1 ELSE 0)
      year == IF civilYear >= 0 /\ civilYear <= 9999 THEN Pad(civilYear, 4)
              ELSE IF civilYear < 0 THEN <<"-">> \o Pad(-civilYear, 6)
              ELSE <<"+">> \o Pad(civilYear, 6)
  IN year \o <<"-">> \o Pad(month, 2) \o <<"-">> \o Pad(day, 2) \o <<"T">>
       \o Pad(date.ms \div MsPerHour, 2) \o <<":">>
       \o Pad((date.ms % MsPerHour) \div MsPerMinute, 2) \o <<":">>
       \o Pad((date.ms % MsPerMinute) \div 1000, 2) \o <<".">>
       \o Pad(date.ms % 1000, 3) \o <<"Z">>

----------------------------------------------------------------------------
\* parseISO of date-fns, for calendar dates (YYYY, YYYY-MM, YYYY-MM-DD, also
\* without dashes, with +/-YYYYYY years and CC centuries), ordinal dates
\* (YYYY-DDD) and times (HH, HH:mm, HH:mm:ss, HH:mm:ss.s+), with an optional
\* Z or +/-HH:mm; week dates are read as invalid

Signed(sign, n) == IF sign = "-" THEN -n ELSE n

\* parseYear: <<matched, year, rest of the date string>>
ParseYear(d) ==
  IF Len(d) >= 4 /\ AllDigits(SubSeq(d, 1, 4))
  THEN <<TRUE, ParseInt(SubSeq(d, 1, 4)), SubSeq(d, 5, Len(d))>>
  ELSE IF Len(d) >= 7 /\ d[1] \in {"+", "-"} /\ AllDigits(SubSeq(d, 2, 7))
  THEN <<TRUE, Signed(d[1], ParseInt(SubSeq(d, 2, 7))), SubSeq(d, 8, Len(d))>>
  ELSE IF Len(d) = 2 /\ AllDigits(d)
  THEN <<TRUE, 100 * ParseInt(d), <<>>>>
  ELSE IF Len(d) = 5 /\ d[1] \in {"+", "-"} /\ AllDigits(SubSeq(d, 2, 5))
  THEN <<TRUE, 100 * Signed(d[1], ParseInt(SubSeq(d, 2, 5))), <<>>>>
  ELSE <<FALSE, 0, <<>>>>

\* parseTime: milliseconds into the day, or -1 for NaN
ParseTime(t) ==
  LET dot == Positions(t, {".", ","})
      clock == IF dot = {} THEN t ELSE SubSeq(t, 1, First(dot) - 1)
      fraction == IF dot = {} THEN <<>> ELSE SubSeq(t, First(dot) + 1, Len(t))
      plain == SelectSeq(clock, LAMBDA c : c # ":")
      shaped ==
        /\ AllDigits(plain) /\ AllDigits(fraction)
        /\ \/ Len(clock) \in {2, 4, 6} /\ plain = clock
           \/ Len(clock) = 5 /\ clock[3] = ":"
           \/ Len(clock) = 8 /\ clock[3] = ":" /\ clock[6] = ":"
        /\ dot # {} => Len(plain) = 6
      hours == ParseInt(SubSeq(plain, 1, 2))
      minutes == IF Len(plain) >= 4 THEN ParseInt(SubSeq(plain, 3, 4)) ELSE 0
      seconds == IF Len(plain) >= 6 THEN ParseInt(SubSeq(plain, 5, 6)) ELSE 0
      millis == ParseInt(SubSeq(fraction \o <<"0", "0", "0">>, 1, 3))
  IN IF ~shaped THEN -1
     ELSE IF hours = 24 /\ (minutes # 0 \/ seconds # 0 \/ millis # 0) THEN -1
     ELSE IF hours > 24 \/ minutes > 59 \/ seconds > 59 THEN -1
     ELSE hours * MsPerHour + minutes * MsPerMinute + seconds * 1000 + millis

\* parseTimezone: <<valid, minutes east of UTC>>; a text that is not of the
\* form +/-HH, +/-HHmm or +/-HH:mm counts as UTC
ParseTimezone(z) ==
  IF z = <<"Z">> THEN <<TRUE, 0>>
  ELSE LET plain == SelectSeq(Tail(z), LAMBDA c : c # ":")
           shaped == /\ Head(z) \in {"+", "-"}
                     /\ AllDigits(plain)
                     /\ \/ Len(Tail(z)) \in {2, 4} /\ plain = Tail(z)
                        \/ Len(Tail(z)) = 5 /\ z[4] = ":"
           hours == ParseInt(SubSeq(plain, 1, 2))
           minutes == IF Len(plain) = 4 THEN ParseInt(SubSeq(plain, 3, 4)) ELSE 0
       IN IF ~shaped THEN <<TRUE, 0>>
          ELSE IF minutes <= 59
          THEN <<TRUE, Signed(Head(z), hours * 60 + minutes)>>
          ELSE <<FALSE, 0>>

\* parseISO(text) in time zone tz: a text without time zone is local time
ParseISO(tz, text) ==
  LET delimiters == Positions(text, {"T", " "})
      cut == IF delimiters = {} THEN Len(text) + 1 ELSE First(delimiters)
      first == SubSeq(text, 1, cut - 1)
      zIn == Positions(first, {"Z", "z"})
      dateString == IF zIn = {} THEN first ELSE SubSeq(first, 1, First(zIn) - 1)
      timeString == IF zIn = {} THEN SubSeq(text, cut + 1, Len(text))
                    ELSE SubSeq(text, First(zIn), Len(text))
      zoneAt == Positions(timeString, {"Z", "+", "-"})
      time == IF zoneAt = {} THEN timeString ELSE SubSeq(timeString, 1, First(zoneAt) - 1)
      zone == IF zoneAt = {} THEN <<>> ELSE SubSeq(timeString, First(zoneAt), Len(timeString))
      parsedYear == ParseYear(dateString)
      year == parsedYear[2]
      \* parseDate: the day number of the date that follows the year, or
      \* Invalid Date; month and day must exist in the calendar
      rest == parsedYear[3]
      r == IF rest # <<>> /\ Head(rest) = "-" THEN Tail(rest) ELSE rest
      daysInMonth(month) ==
        IF month = 2 THEN (IF IsLeapYear(year) THEN 29 ELSE 28)
        ELSE IF month \in {4, 6, 9, 11} THEN 30 ELSE 31
      calendar(month, day) ==
        IF month >= 1 /\ month <= 12 /\ day >= 1 /\ day <= daysInMonth(month)
        THEN TimeValue(DaysFromCivil(year, month, day), 0)
        ELSE InvalidDate
      parsedDate ==
        IF r = <<>> THEN calendar(1, 1)
        ELSE IF ~AllDigits(SelectSeq(r, LAMBDA c : c # "-")) THEN InvalidDate
        ELSE IF Len(r) = 3 /\ AllDigits(r)
        THEN IF ParseInt(r) >= 1 /\ ParseInt(r) <= (IF IsLeapYear(year) THEN 366 ELSE 365)
             THEN TimeValue(DaysFromCivil(year, 1, 1) + ParseInt(r) - 1, 0)
             ELSE InvalidDate
        ELSE IF Len(r) = 2 THEN calendar(ParseInt(r), 1)
        ELSE IF Len(r) = 4 /\ AllDigits(r)
        THEN calendar(ParseInt(SubSeq(r, 1, 2)), ParseInt(SubSeq(r, 3, 4)))
        ELSE IF Len(r) = 5 /\ r[3] = "-" /\ AllDigits(SubSeq(r, 1, 2)) /\ AllDigits(SubSeq(r, 4, 5))
        THEN calendar(ParseInt(SubSeq(r, 1, 2)), ParseInt(SubSeq(r, 4, 5)))
        ELSE InvalidDate
      date == IF parsedYear[1] THEN parsedDate ELSE InvalidDate
      ms == IF time = <<>> THEN 0 ELSE ParseTime(time)
      offset == IF zone = <<>> THEN <<TRUE, 0>> ELSE ParseTimezone(zone)
  IN IF Cardinality(delimiters) > 1 \/ dateString = <<>> THEN InvalidDate
     ELSE IF Positions(first, {":"}) # {} THEN InvalidDate
     ELSE IF ~date.valid \/ ms < 0 \/ ~offset[1] THEN InvalidDate
     ELSE IF zone = <<>>
          THEN LocalTime(tz, date.day + ms \div MsPerDay, ms % MsPerDay)
          ELSE AddMs(date, ms - offset[2] * MsPerMinute)

----------------------------------------------------------------------------
\* new Date(text) of the engine (V8): the date-time string format of the
\* language (date-only forms are UTC, date-times without offset local time;
\* a day up to 31 is accepted in every month and rolls over) and, of the
\* formats of its legacy parser, "Month D, YYYY" (local time); other texts
\* give Invalid Date
DateParse(tz, text) ==
  LET \* the date-time string format: YYYY-MM-DDTHH:mm:ss.sssZ and its shorter forms
      tAt == Positions(text, {"T"})
      cut == IF tAt = {} THEN Len(text) + 1 ELSE First(tAt)
      dateString == SubSeq(text, 1, cut - 1)
      timeString == SubSeq(text, cut + 1, Len(text))
      zoneAt == Positions(timeString, {"Z", "+", "-"})
      time == IF zoneAt = {} THEN timeString ELSE SubSeq(timeString, 1, First(zoneAt) - 1)
      zone == IF zoneAt = {} THEN <<>> ELSE SubSeq(timeString, First(zoneAt), Len(timeString))
      parsedYear == ParseYear(dateString)
      rest == parsedYear[3]
      shaped ==
        /\ parsedYear[1]
        /\ Len(dateString) - Len(rest) \in {4, 7}
        /\ \/ rest = <<>>
           \/ Len(rest) = 3 /\ rest[1] = "-" /\ AllDigits(Tail(rest))
           \/ Len(rest) = 6 /\ rest[1] = "-" /\ rest[4] = "-"
                /\ AllDigits(SubSeq(rest, 2, 3)) /\ AllDigits(SubSeq(rest, 5, 6))
        /\ tAt # {} => /\ Len(time) \in {5, 8} \/ (Len(time) > 9 /\ time[9] = ".")
                       /\ \A i \in 1..Len(time) : i \in {3, 6} => time[i] = ":"
                       /\ \/ zone = <<>>
                          \/ zone = <<"Z">>
                          \/ /\ Len(zone) = 6 /\ zone[1] \in {"+", "-"} /\ zone[4] = ":"
                             /\ AllDigits(SubSeq(zone, 2, 3)) /\ AllDigits(SubSeq(zone, 5, 6))
      isoMonth == IF Len(rest) >= 3 THEN ParseInt(SubSeq(rest, 2, 3)) ELSE 1
      isoDay == IF Len(rest) = 6 THEN ParseInt(SubSeq(rest, 5, 6)) ELSE 1
      ms == IF tAt = {} THEN 0 ELSE ParseTime(time)
      offset == IF zone = <<>> THEN <<TRUE, 0>> ELSE ParseTimezone(zone)
      dayNumber == DaysFromCivil(parsedYear[2], isoMonth, 1) + isoDay - 1
      iso ==
        IF ~shaped THEN InvalidDate
        ELSE IF isoMonth < 1 \/ isoMonth > 12 \/ isoDay < 1 \/ isoDay > 31 THEN InvalidDate
        ELSE IF ms < 0 \/ ~offset[1] THEN InvalidDate
        ELSE IF tAt # {} /\ zone = <<>>
             THEN LocalTime(tz, dayNumber + ms \div MsPerDay, ms % MsPerDay)
             ELSE AddMs(TimeValue(dayNumber, 0), ms - offset[2] * MsPerMinute)
      \* the legacy format "Month D, YYYY"
      monthPrefixes ==
        << "jan", "feb", "mar", "apr", "may", "jun", "jul", "aug", "sep", "oct",
           "nov", "dec" >>
      spaces == Positions(text, {" "})
      comma == Positions(text, {","})
      word == SubSeq(text, 1, First(spaces) - 1)
      day == SubSeq(text, First(spaces) + 1, First(comma) - 1)
      year == SubSeq(text, First(comma) + 2, Len(text))
      months == { m \in 1..12 :
                    ToLowerCase(SubSeq(word, 1, 3)) = Chars(monthPrefixes[m]) }
      legacy ==
        IF /\ Cardinality(spaces) = 2 /\ Cardinality(comma) = 1
           /\ First(spaces) < First(comma)
           /\ First(comma) + 1 \in spaces
           /\ Len(word) >= 3 /\ \A i \in 1..Len(word) : word[i] \in DOMAIN LowerOf \cup DOMAIN UpperOf
           /\ months # {}
           /\ Len(day) \in {1, 2} /\ AllDigits(day)
           /\ ParseInt(day) >= 1 /\ ParseInt(day) <= 31
           /\ Len(year) = 4 /\ AllDigits(year)
        THEN NewDate(tz, ParseInt(year), First(months) - 1, ParseInt(day))
        ELSE InvalidDate
  IN IF iso.valid THEN iso ELSE legacy

----------------------------------------------------------------------------
\* DataNormalizer.normalizeDate

\* the argument of normalizeDate: a string, a Date, or null / undefined
DateInput(type, text, date) == [type |-> type, text |-> text, date |-> date]

\* String(date)
StringOf(date) ==
  IF date.type = "string" THEN date.text
  ELSE IF date.type = "date" /\ ~date.date.valid THEN Chars("Invalid Date")
  ELSE IF date.type = "date" THEN ToISOString(date.date)
  ELSE Chars(date.type)

\* date.match(formats[k]): the groups matched, or <<>>
FormatMatch(text, k) ==
  LET \* the digit groups of a text of the form g1 sep g2 sep g3
      at == Positions(text, {IF k = 1 THEN "/" ELSE "-"})
      a == First(at)
      b == First(at \ {a})
      groups == <<SubSeq(text, 1, a - 1), SubSeq(text, a + 1, b - 1),
                  SubSeq(text, b + 1, Len(text))>>
      lens == IF k = 3 THEN <<{4}, {1, 2}, {1, 2}>> ELSE <<{1, 2}, {1, 2}, {4}>>
  IN IF /\ Cardinality(at) = 2
        /\ \A g \in 1..3 : groups[g] # <<>> /\ AllDigits(groups[g])
        /\ \A g \in 1..3 : Len(groups[g]) \in lens[g]
     THEN groups
     ELSE <<>>

\* the first of the three formats that matches, or 0
MatchingFormat(text) ==
  IF \E k \in 1..3 : FormatMatch(text, k) # <<>>
  THEN CHOOSE k \in 1..3 : /\ FormatMatch(text, k) # <<>>
                           /\ \A j \in 1..(k - 1) : FormatMatch(text, j) = <<>>
  ELSE 0

Returned(value) == [threw |-> FALSE, value |-> value]

\* the try block of normalizeDate: what it returns, or that it throws
\* (toISOString of an Invalid Date, match of null or undefined)
NormalizeDateTry(tz, date) ==
  IF date.type = "date"
  THEN IF date.date.valid THEN Returned(ToISOString(date.date))
       ELSE [threw |-> TRUE, value |-> Chars("RangeError")]
  ELSE IF date.type # "string" THEN [threw |-> TRUE, value |-> Chars("TypeError")]
  ELSE LET text == date.text
           k == MatchingFormat(text)
           match == FormatMatch(text, k)
           \* the Date built from the groups of the match: month, day, year
           \* with '/'; year, month, day when the first group has four
           \* digits; day, month, year otherwise
           fromMatch ==
             IF Includes(text, <<"/">>)
             THEN NewDate(tz, ParseInt(match[3]), ParseInt(match[1]) - 1, ParseInt(match[2]))
             ELSE IF Includes(text, <<"-">>) /\ Len(match[1]) = 4
             THEN NewDate(tz, ParseInt(match[1]), ParseInt(match[2]) - 1, ParseInt(match[3]))
             ELSE NewDate(tz, ParseInt(match[3]), ParseInt(match[2]) - 1, ParseInt(match[1]))
       IN IF ParseISO(tz, text).valid THEN Returned(ToISOString(ParseISO(tz, text)))
          ELSE IF k # 0 /\ fromMatch.valid THEN Returned(ToISOString(fromMatch))
          ELSE IF DateParse(tz, text).valid THEN Returned(ToISOString(DateParse(tz, text)))
          ELSE Returned(text)

\* the error leaves normalizeDate
NormalizeDate_NoCatch(tz, date) == NormalizeDateTry(tz, date)

\* normalizeDate(date): the catch block returns String(date)
NormalizeDate(tz, date) ==
  IF NormalizeDateTry(tz, date).threw
  THEN Returned(StringOf(date))
  ELSE NormalizeDateTry(tz, date)

----------------------------------------------------------------------------
\* DataNormalizer.normalizeURL

\* new URL(text) does not throw, for a text that starts with http:// or
\* https://: after the slashes comes a non-empty host without the characters
\* a host cannot hold, with digits as port if it has one
URLParses(text) ==
  LET scheme == IF MatchesAt(text, Chars("https://"), 1) THEN Chars("https://")
                ELSE Chars("http://")
      afterScheme == SubSeq(text, Len(scheme) + 1, Len(text))
      slashes == { i \in 1..Len(afterScheme) : \A j \in 1..i : afterScheme[j] = "/" }
      rest == SubSeq(afterScheme, Cardinality(slashes) + 1, Len(afterScheme))
      ends == Positions(rest, {"/", "?", "#"})
      authority == IF ends = {} THEN rest ELSE SubSeq(rest, 1, First(ends) - 1)
      colons == Positions(authority, {":"})
      host == IF colons = {} THEN authority ELSE SubSeq(authority, 1, First(colons) - 1)
      port == IF colons = {} THEN <<>> ELSE SubSeq(authority, First(colons) + 1, Len(authority))
  IN /\ host # <<>>
     /\ \A i \in 1..Len(host) : host[i] \notin {" ", "<", ">", "^", "|"}
     /\ AllDigits(port)

\* normalizeURL(url): the catch block returns url as it was given
NormalizeURL(url) ==
  IF url.type # "string" THEN Returned(url)
  ELSE LET trimmed == Trim(url.text)
       IN IF /\ ~MatchesAt(trimmed, Chars("http://"), 1)
             /\ ~MatchesAt(trimmed, Chars("https://"), 1)
          THEN Returned(JsValue("string", Chars("https://") \o trimmed))
          ELSE IF URLParses(trimmed) THEN Returned(JsValue("string", trimmed))
          ELSE Returned(url)

----------------------------------------------------------------------------
\* DeadlineCalculator

URGENT_THRESHOLD == 30
SOON_THRESHOLD == 60
LATER_THRESHOLD == 90

\* daysUntil(deadline) at time `now`: Null, or <<diffDays>>
DaysUntil(tz, now, deadline) ==
  IF deadline.type \notin {"string", "date"} \/ (deadline.type = "string" /\ deadline.text = <<>>)
  THEN Null
  ELSE LET \* new Date(d.getFullYear(), d.getMonth(), d.getDate()): 00:00
           \* local time of the local day of d
           midnight(d) == LocalTime(tz, LocalDay(tz, d), 0)
           \* Math.ceil(diffMs / (1000 * 60 * 60 * 24)), where diffMs is
           \* (whole days) * MsPerDay + (rest)
           diffDays(deadlineMidnight, nowMidnight) ==
             (deadlineMidnight.day - nowMidnight.day)
               - ((-(deadlineMidnight.ms - nowMidnight.ms)) \div MsPerDay)
           from(deadlineDate) ==
             IF ~deadlineDate.valid THEN Null
             ELSE <<diffDays(midnight(deadlineDate), midnight(now))>>
       IN from(IF deadline.type = "date" THEN deadline.date
               ELSE DateParse(tz, deadline.text))

\* isWithinDays(deadline, days)
IsWithinDays(tz, now, deadline, days) ==
  LET within(daysUntilDeadline) ==
        IF daysUntilDeadline = Null THEN FALSE
        ELSE daysUntilDeadline[1] >= 0 /\ daysUntilDeadline[1] <= days
  IN within(DaysUntil(tz, now, deadline))

\* the thresholds compared with < instead of <=
CategorizeUrgency_Strict(tz, now, deadline) ==
  LET category(daysUntilDeadline) ==
        IF daysUntilDeadline = Null THEN "none"
        ELSE IF daysUntilDeadline[1] < 0 THEN "none"
        ELSE IF daysUntilDeadline[1] < URGENT_THRESHOLD THEN "urgent"
        ELSE IF daysUntilDeadline[1] < SOON_THRESHOLD THEN "soon"
        ELSE IF daysUntilDeadline[1] < LATER_THRESHOLD THEN "later"
        ELSE "none"
  IN category(DaysUntil(tz, now, deadline))

\* categorizeUrgency(deadline)
CategorizeUrgency(tz, now, deadline) ==
  LET category(daysUntilDeadline) ==
        IF daysUntilDeadline = Null THEN "none"
        ELSE IF daysUntilDeadline[1] < 0 THEN "none"
        ELSE IF daysUntilDeadline[1] <= URGENT_THRESHOLD THEN "urgent"
        ELSE IF daysUntilDeadline[1] <= SOON_THRESHOLD THEN "soon"
        ELSE IF daysUntilDeadline[1] <= LATER_THRESHOLD THEN "later"
        ELSE "none"
  IN category(DaysUntil(tz, now, deadline))

----------------------------------------------------------------------------
\* DataNormalizer.normalize, as far as scrapeSource depends on it

NormalizeThrows(raw) == "name" \notin DOMAIN raw

Normalize(raw) == [name |-> Trim(raw.name), source |-> raw.source]

----------------------------------------------------------------------------
\* Extractors: BaseStaticScraper / BaseDynamicScraper subclasses

\* scrape() of a static extractor rethrows what fetchHTML raised; scrape() of
\* a dynamic extractor logs it and returns [] from its catch block
ScrapeOutcome(scraper, io, src, at) ==
  IF io.ok
  THEN [kind |-> "return", value |-> io.raw, error |-> NoError]
  ELSE IF scraper.kind = "static"
       THEN [kind |-> "throw", value |-> <<>>,
             error |-> MkError("Error", io.message, src, at)]
       ELSE [kind |-> "return", value |-> <<>>, error |-> NoError]

----------------------------------------------------------------------------
\* RetryHandler.executeWithRetry

\* a linear instead of an exponential backoff
BackoffDelay_Linear(baseDelay, maxDelay, attempt) ==
  Min(baseDelay * (attempt + 1), maxDelay)

BackoffDelay(baseDelay, maxDelay, attempt) ==
  Min(baseDelay * 2 ^ attempt, maxDelay)

IsLastAttempt(attempt, retries) == attempt = retries

\* onRetry told the loop index instead of the attempt number
OnRetryAttempt_LoopIndex(attempt) == attempt

OnRetryAttempt(attempt) == attempt + 1

\* lastError keeps the first error caught
CatchAssign_KeepFirst(prevLastError, error) ==
  IF prevLastError = NoError THEN error ELSE prevLastError

CatchAssign(prevLastError, error) == error

----------------------------------------------------------------------------
\* ScraperOrchestrator.scrapeSource

ScrapeSourceReturn(name, raws) ==
  LET normalized == [k \in 1..Len(raws) |-> Normalize(raws[k])]
  IN [state |-> "fulfilled",
      value |-> [source |-> name, scholarships |-> normalized,
                 count |-> Len(normalized), success |-> TRUE,
                 error |-> Undefined],
      reason |-> NoError]

FailureResult(name, err) ==
  [source |-> name, scholarships |-> <<>>, count |-> 0, success |-> FALSE,
   error |-> err.message]

\* scrapeSource without its catch block: the task's promise is rejected
ScrapeSourceCatch_Rethrow(name, err) ==
  [state |-> "rejected", value |-> FailureResult(name, err), reason |-> err]

ScrapeSourceCatch(name, err) ==
  [state |-> "fulfilled", value |-> FailureResult(name, err), reason |-> NoError]

----------------------------------------------------------------------------
\* p-limit pool created in the constructor (concurrencyLimit)

\* a pool that starts whatever is submitted
CanAdmit_Always(active, concurrency) == TRUE

CanAdmit(active, concurrency) == active < concurrency

\* the pool starts one task however many slots are free
Drain_One(active, queued, concurrency) == IF queued > 0 THEN active + 1 ELSE active

\* a pool that never starts a submitted task
Drain_None(active, queued, concurrency) == active

\* the number of tasks running after the pool has looked at `queued` newly
\* submitted tasks, one after the other
RECURSIVE Drain(_, _, _)
Drain(active, queued, concurrency) ==
  IF queued > 0 /\ CanAdmit(active, concurrency)
  THEN Drain(active + 1, queued - 1, concurrency)
  ELSE active

----------------------------------------------------------------------------
\* ScraperOrchestrator.scrapeAll: aggregation

\* Promise.all keeps the value of the task at index i of the submitted list
\* at index i of its values
\* values pushed in the order in which the tasks settle
PromiseAllStore_Push(values, i, sv) ==
  LET free == CHOOSE k \in 1..Len(values) :
                /\ values[k].state = "pending"
                /\ \A m \in 1..(k - 1) : values[m].state # "pending"
  IN [values EXCEPT ![free] = sv]

PromiseAllStore(values, i, sv) == [values EXCEPT ![i] = sv]

IsSuccess(r) == r.success

\* the reduce adds one per successful source instead of its count
TotalScholarships_PerSource(results) == Len(SelectSeq(results, IsSuccess))

TotalScholarships(results) ==
  LET successful == SelectSeq(results, IsSuccess)
      sum[k \in 0..Len(successful)] ==
        IF k = 0 THEN 0 ELSE sum[k - 1] + successful[k].count
  IN sum[Len(successful)]

\* failedSources taken from the list that was not filtered
MkSummary_FailedUnfiltered(results) ==
  LET successfulResults == SelectSeq(results, IsSuccess)
  IN [totalScholarships |-> TotalScholarships(results),
      successfulSources |-> Len(successfulResults),
      failedSources |-> Len(results),
      successRate |-> [num |-> Len(successfulResults) * 100, den |-> Len(results)],
      results |-> results]

\* successRate is a quotient of two counts times 100, kept as a fraction
MkSummary(results) ==
  LET successfulResults == SelectSeq(results, IsSuccess)
      failedResults == SelectSeq(results, LAMBDA r : ~r.success)
  IN [totalScholarships |-> TotalScholarships(results),
      successfulSources |-> Len(successfulResults),
      failedSources |-> Len(failedResults),
      successRate |-> [num |-> Len(successfulResults) * 100, den |-> Len(results)],
      results |-> results]

GetScholarships(sm) ==
  LET successful == SelectSeq(sm.results, IsSuccess)
      flat[k \in 0..Len(successful)] ==
        IF k = 0 THEN <<>> ELSE flat[k - 1] \o successful[k].scholarships
  IN flat[Len(successful)]

----------------------------------------------------------------------------
\* State

VARIABLES
  config,           \* ScraperConfig: concurrency and retry policy
  scrapers,         \* the submitted extractor list: <<[name, kind, page], ...>>
  runState,         \* scrapeAll: "idle", "running", "returned", "rejected"
  summary,          \* the ScraperSummary returned by scrapeAll
  pc,               \* per task: "idle", "queued", "scraping", "backoff", "settled"
  attempt,          \* per task: loop variable of executeWithRetry
  lastError,        \* per task: lastError of executeWithRetry
  settled,          \* Promise.all: per index, the settled promise of a task
  activeCount,      \* p-limit: number of running tasks
  queue,            \* p-limit: tasks waiting for a slot, in submission order
  hist,             \* per task: what was invoked, thrown, waited and returned
  outOfOrder,       \* a task has settled before a task submitted ahead of it
  rateLimiter,      \* one RateLimiter: requestsPerSecond, interval, lastRequestTime, queue
  now,              \* Date.now(), in ms
  callers,          \* per caller of throttle: where it is, its timer, its start time
  dyn,              \* one dynamic extractor: this.browser, scrape()'s page, the sessions open
  call,             \* a call of a library function: its arguments and what it returned
  fetch,            \* scrapeSource of one static extractor, fetch by fetch
  overlap,          \* one dynamic extractor under two scrape() invocations at a time
  filterState       \* a FilterState of the page

orchVars == <<config, scrapers, runState, summary, pc, attempt, lastError, settled,
              activeCount, queue, hist, outOfOrder>>

rlVars == <<rateLimiter, now, callers>>

dynVars == <<dyn>>

libVars == <<call>>

partVars == <<fetch, overlap, filterState>>

vars == <<orchVars, rlVars, dynVars, libVars, partVars>>

N == Len(scrapers)
Tasks == 1..N

\* a dynamic extractor after its constructor: browser = null, nothing open
NewDynamicScraper ==
  [pc |-> "idle", browser |-> 0, page |-> 0, openBrowsers |-> {}, openPages |-> {},
   launched |-> 0, created |-> 0, runs |-> 0, reused |-> FALSE,
   returned |-> Undefined]

\* no library call in progress
NoCall == [fn |-> Undefined]

\* new FilterState(): the four own properties the constructor assigns;
\* lastCall is the history of the calls made on it
NewFilterState ==
  [amountRange |-> "any", deadlineRange |-> "any", country |-> "", degree |-> "",
   lastCall |-> [method |-> "constructor", filterName |-> Undefined]]

\* the parts modelled on their own are at rest: scrapeSource of the static
\* extractor has not been called; the dynamic extractor is as its constructor
\* left it (browser = null), no scrape() invoked; the FilterState is new
InitParts ==
  /\ fetch = [pc |-> "idle", attempt |-> 0, fetchAttempt |-> 0, fetches |-> 0,
              failures |-> 0, delay |-> 0, result |-> Undefined]
  /\ overlap = [browser |-> 0, launched |-> 0, openBrowsers |-> {},
                scrape |-> [k \in {1, 2} |->
                              [pc |-> "idle", browser |-> 0, page |-> FALSE,
                               runs |-> 0, returned |-> Undefined]]]
  /\ filterState = NewFilterState

\* new RateLimiter({requestsPerSecond}) with callers that have not called yet
InitRateLimiter(rates, nCallers) ==
  /\ rateLimiter \in { [requestsPerSecond |-> r,
                         interval |-> 1000 \div r,
                         lastRequestTime |-> 0,
                         queue |-> <<>>] : r \in rates }
  /\ now = StartOfRun
  /\ callers = [c \in 1..nCallers |-> [pc |-> "idle", due |-> 0, started |-> 0]]

InitOrchestrator(maxSources, maxConcurrency, maxRetries, delayPairs, pages) ==
  /\ config \in { [concurrency |-> c,
                    retry |-> [retries |-> r, baseDelay |-> d[1], maxDelay |-> d[2]]] :
                    c \in 1..maxConcurrency, r \in 0..maxRetries, d \in delayPairs }
  \* the extractor list of routes/api.ts: static extractors, then dynamic ones
  /\ scrapers \in { [i \in 1..n |-> [name |-> "S" \o ToString(i),
                                     kind |-> IF i <= st THEN "static" ELSE "dynamic",
                                     page |-> p]] :
                      n \in 0..maxSources, st \in 0..maxSources, p \in pages }
  /\ runState = "idle"
  /\ summary = MkSummary(<<>>)
  /\ pc = [i \in Tasks |-> "idle"]
  /\ attempt = [i \in Tasks |-> 0]
  /\ lastError = [i \in Tasks |-> NoError]
  /\ settled = [i \in Tasks |->
                  [state |-> "pending", value |-> FailureResult(Undefined, NoError),
                   reason |-> NoError]]
  /\ activeCount = 0
  /\ queue = <<>>
  /\ hist = [i \in Tasks |->
               [calls |-> 0, throws |-> 0, lastThrown |-> NoError, onRetry |-> <<>>,
                delays |-> <<>>, io |-> <<>>, returned |-> <<>>, failedWith |-> NoError]]
  /\ outOfOrder = FALSE

Init ==
  /\ InitOrchestrator(MaxSources, MaxConcurrency, MaxRetries, {<<1000, 10000>>}, {"typed"})
  /\ InitRateLimiter({1}, 0)
  /\ dyn = NewDynamicScraper
  /\ call = NoCall
  /\ InitParts

\* an orchestrator over up to maxSources extractors whose pages are of the
\* kinds `pages`; everything else at rest
InitScrapeAll(maxSources, maxConcurrency, maxRetries, delayPairs, pages) ==
  /\ InitOrchestrator(maxSources, maxConcurrency, maxRetries, delayPairs, pages)
  /\ InitRateLimiter({1}, 0)
  /\ dyn = NewDynamicScraper
  /\ call = NoCall
  /\ InitParts

\* one extractor under every retry policy up to the default one
InitSingle ==
  /\ InitOrchestrator(1, 1, MaxRetriesSingle,
                      { <<1000, 10000>>, <<1000, 3000>>, <<3000, 2000>> }, {"typed"})
  /\ InitRateLimiter({1}, 0)
  /\ dyn = NewDynamicScraper
  /\ call = NoCall
  /\ InitParts

\* one RateLimiter and its callers, next to an orchestrator with no extractor;
\* the rateLimit of a source is 1 or 2 requests per second
InitLimiter ==
  /\ InitOrchestrator(0, 1, 0, {<<1000, 10000>>}, {"typed"})
  /\ InitRateLimiter({1, 2}, MaxCallers)
  /\ dyn = NewDynamicScraper
  /\ call = NoCall
  /\ InitParts

----------------------------------------------------------------------------
\* Actions

\* scrapeAll(): every extractor is handed to the pool, which starts the first
\* `concurrency` of them; a started task runs scrapeSource up to the first
\* invocation of scraper.scrape() inside executeWithRetry
ScrapeAllStart ==
  /\ runState = "idle"
  /\ runState' = "running"
  /\ LET started == Drain(0, N, config.concurrency) IN
       /\ activeCount' = started
       /\ queue' = [k \in 1..(N - started) |-> started + k]
       /\ pc' = [i \in Tasks |-> IF i <= started THEN "scraping" ELSE "queued"]
       /\ hist' = [i \in Tasks |->
                     IF i <= started THEN [hist[i] EXCEPT !.calls = 1] ELSE hist[i]]
  /\ UNCHANGED <<config, scrapers, summary, attempt, lastError, settled,
                 outOfOrder>>
  /\ UNCHANGED <<rlVars, dynVars, libVars, partVars>>

\* the promise of task i settles with sv; the pool frees the slot and starts
\* the head of its queue (p-limit next())
Settle(i, sv, h) ==
  LET nxt == IF queue # <<>> THEN Head(queue) ELSE 0 IN
  /\ settled' = PromiseAllStore(settled, i, sv)
  /\ pc' = [j \in Tasks |->
              IF j = i THEN "settled" ELSE IF j = nxt THEN "scraping" ELSE pc[j]]
  /\ attempt' = [j \in Tasks |-> IF j = nxt THEN 0 ELSE attempt[j]]
  /\ hist' = [j \in Tasks |->
                IF j = nxt THEN [h[j] EXCEPT !.calls = 1] ELSE h[j]]
  /\ outOfOrder' = (outOfOrder \/ \E k \in 1..(i - 1) : pc[k] # "settled")
  /\ activeCount' = IF queue # <<>> THEN activeCount ELSE activeCount - 1
  /\ queue' = IF queue # <<>> THEN Tail(queue) ELSE queue

\* scraper.scrape() returns: executeWithRetry returns the value and
\* scrapeSource normalizes it into a successful ScraperResult
ScrapeReturns(i) ==
  /\ pc[i] = "scraping"
  /\ \E io \in IoOutcomes(scrapers[i]) :
       LET out == ScrapeOutcome(scrapers[i], io, i, hist[i].calls)
           h == [hist EXCEPT ![i].io = Append(@, io.ok),
                             ![i].returned = Append(@, out.value)]
           bad == \E k \in 1..Len(out.value) : NormalizeThrows(out.value[k])
           sv == IF bad
                 THEN ScrapeSourceCatch(scrapers[i].name,
                        MkError("TypeError", "Cannot read properties of undefined",
                                i, hist[i].calls))
                 ELSE ScrapeSourceReturn(scrapers[i].name, out.value)
       IN /\ out.kind = "return"
          /\ Settle(i, sv, h)
  /\ UNCHANGED <<config, scrapers, runState, summary, lastError>>
  /\ UNCHANGED <<rlVars, dynVars, libVars, partVars>>

\* scraper.scrape() throws on an attempt that is not the last: log, onRetry,
\* then wait for the backoff delay
ScrapeThrowsRetry(i) ==
  /\ pc[i] = "scraping"
  /\ ~IsLastAttempt(attempt[i], config.retry.retries)
  /\ \E io \in IoOutcomes(scrapers[i]) :
       LET out == ScrapeOutcome(scrapers[i], io, i, hist[i].calls)
           err == CatchAssign(lastError[i], out.error)
           delay == BackoffDelay(config.retry.baseDelay, config.retry.maxDelay,
                                 attempt[i])
       IN /\ out.kind = "throw"
          /\ lastError' = [lastError EXCEPT ![i] = err]
          /\ hist' = [hist EXCEPT
                        ![i].io = Append(@, io.ok),
                        ![i].throws = @ + 1,
                        ![i].lastThrown = out.error,
                        ![i].onRetry = Append(@, [attempt |-> OnRetryAttempt(attempt[i]),
                                                  calls |-> hist[i].calls]),
                        ![i].delays = Append(@, [ms |-> delay, calls |-> hist[i].calls])]
  /\ pc' = [pc EXCEPT ![i] = "backoff"]
  /\ UNCHANGED <<config, scrapers, runState, summary, attempt, settled,
                 activeCount, queue, outOfOrder>>
  /\ UNCHANGED <<rlVars, dynVars, libVars, partVars>>

\* scraper.scrape() throws on the last attempt: executeWithRetry throws
\* lastError, which the catch block of scrapeSource turns into a result
ScrapeThrowsFinal(i) ==
  /\ pc[i] = "scraping"
  /\ IsLastAttempt(attempt[i], config.retry.retries)
  /\ \E io \in IoOutcomes(scrapers[i]) :
       LET out == ScrapeOutcome(scrapers[i], io, i, hist[i].calls)
           err == CatchAssign(lastError[i], out.error)
           h == [hist EXCEPT ![i].io = Append(@, io.ok),
                             ![i].throws = @ + 1,
                             ![i].lastThrown = out.error,
                             ![i].failedWith = err]
       IN /\ out.kind = "throw"
          /\ lastError' = [lastError EXCEPT ![i] = err]
          /\ Settle(i, ScrapeSourceCatch(scrapers[i].name, err), h)
  /\ UNCHANGED <<config, scrapers, runState, summary>>
  /\ UNCHANGED <<rlVars, dynVars, libVars, partVars>>

\* the backoff delay is over: attempt++ and, while attempt <= retries, the
\* next invocation of scraper.scrape()
DelayElapsed(i) ==
  /\ pc[i] = "backoff"
  /\ IF attempt[i] + 1 <= config.retry.retries
     THEN /\ attempt' = [attempt EXCEPT ![i] = @ + 1]
          /\ pc' = [pc EXCEPT ![i] = "scraping"]
          /\ hist' = [hist EXCEPT ![i].calls = @ + 1]
          /\ UNCHANGED <<settled, activeCount, queue, outOfOrder>>
     ELSE Settle(i, ScrapeSourceCatch(scrapers[i].name, lastError[i]),
                 [hist EXCEPT ![i].failedWith = lastError[i]])
  /\ UNCHANGED <<config, scrapers, runState, summary, lastError>>
  /\ UNCHANGED <<rlVars, dynVars, libVars, partVars>>

\* Promise.all settles: rejected as soon as one task is rejected, fulfilled
\* when every task is fulfilled; scrapeAll then builds the summary
ScrapeAllSettles ==
  /\ runState = "running"
  /\ \/ \E i \in Tasks : settled[i].state = "rejected"
     \/ \A i \in Tasks : settled[i].state = "fulfilled"
  /\ IF \E i \in Tasks : settled[i].state = "rejected"
     THEN /\ runState' = "rejected"
          /\ UNCHANGED summary
     ELSE /\ runState' = "returned"
          /\ summary' = MkSummary([k \in 1..Len(settled) |-> settled[k].value])
  /\ UNCHANGED <<config, scrapers, pc, attempt, lastError, settled, activeCount,
                 queue, hist, outOfOrder>>
  /\ UNCHANGED <<rlVars, dynVars, libVars, partVars>>

----------------------------------------------------------------------------
\* RateLimiter.throttle

\* processQueue(): shift the next waiter off the queue, if any
ProcessQueue(limiter) ==
  IF Len(limiter.queue) > 0
  THEN [limiter EXCEPT !.queue = Tail(@)]
  ELSE limiter

\* throttle(fn) up to the end of the executor of waitForSlot: with nothing to
\* wait for the slot is taken and fn starts, otherwise a timer is set
Throttle(c) ==
  /\ callers[c].pc = "idle"
  /\ LET timeToWait == Max(0, rateLimiter.interval - (now - rateLimiter.lastRequestTime)) IN
       IF timeToWait = 0
       THEN /\ rateLimiter' = [rateLimiter EXCEPT !.lastRequestTime = now]
            /\ callers' = [callers EXCEPT ![c] =
                             [pc |-> "running", due |-> 0, started |-> now]]
       ELSE /\ callers' = [callers EXCEPT ![c] =
                             [pc |-> "waiting", due |-> now + timeToWait, started |-> 0]]
            /\ UNCHANGED rateLimiter
  /\ UNCHANGED now
  /\ UNCHANGED <<orchVars, dynVars, libVars, partVars>>

\* the timer of waitForSlot fires: the slot is taken and fn starts
TimerFires(c) ==
  /\ callers[c].pc = "waiting"
  /\ now >= callers[c].due
  /\ rateLimiter' = [rateLimiter EXCEPT !.lastRequestTime = now]
  /\ callers' = [callers EXCEPT ![c] = [pc |-> "running", due |-> 0, started |-> now]]
  /\ UNCHANGED now
  /\ UNCHANGED <<orchVars, dynVars, libVars, partVars>>

\* fn() settles: the finally block runs processQueue()
OperationSettles(c) ==
  /\ callers[c].pc = "running"
  /\ rateLimiter' = ProcessQueue(rateLimiter)
  /\ callers' = [callers EXCEPT ![c].pc = "done"]
  /\ UNCHANGED now
  /\ UNCHANGED <<orchVars, dynVars, libVars, partVars>>

\* time passes
Tick ==
  /\ now < StartOfRun + MaxTicks * ClockStep
  /\ now' = now + ClockStep
  /\ UNCHANGED <<rateLimiter, callers>>
  /\ UNCHANGED <<orchVars, dynVars, libVars, partVars>>

NextLimiter ==
  \/ \E c \in DOMAIN callers : Throttle(c)
  \/ \E c \in DOMAIN callers : TimerFires(c)
  \/ \E c \in DOMAIN callers : OperationSettles(c)
  \/ Tick

Next ==
  \/ ScrapeAllStart
  \/ \E i \in Tasks : ScrapeReturns(i)
  \/ \E i \in Tasks : ScrapeThrowsRetry(i)
  \/ \E i \in Tasks : ScrapeThrowsFinal(i)
  \/ \E i \in Tasks : DelayElapsed(i)
  \/ ScrapeAllSettles

Spec == Init /\ [][Next]_vars

\* scrapeAll when every scrape() attempt settles: the event loop runs every
\* timer and every promise continuation that is ready
SpecLive ==
  /\ InitScrapeAll(MaxLiveSources, MaxConcurrency, MaxRetries, {<<1000, 10000>>}, {"typed"})
  /\ [][Next]_vars
  /\ \A i \in 1..MaxLiveSources :
       /\ WF_vars(i \in Tasks /\ (ScrapeReturns(i) \/ ScrapeThrowsRetry(i)
                                    \/ ScrapeThrowsFinal(i)))
       /\ WF_vars(i \in Tasks /\ DelayElapsed(i))
  /\ WF_vars(ScrapeAllSettles)

SpecSingle == InitSingle /\ [][Next]_vars

SpecLimiter == InitLimiter /\ [][NextLimiter]_vars

\* scrapeAll over extractors whose pages yield a record without a name
SpecMalformed ==
  /\ InitScrapeAll(MaxSources, MaxConcurrency, MaxRetries, {<<1000, 10000>>}, {"malformed"})
  /\ [][Next]_vars

----------------------------------------------------------------------------
\* BaseDynamicScraper and DAADScraper.scrape(): the browser session of a run.
\* dyn.browser is this.browser (0 for null), dyn.page the local `page` of
\* scrape() (0 for null); openBrowsers and openPages are the browsers and
\* pages that exist and have not been closed.

\* an await inside the try block of scrape() throws: handleError, return []
ScrapeCatch(d) == [d EXCEPT !.pc = "finally", !.returned = "[]"]

\* closeBrowser(): this.browser is set to null after browser.close()
\* returned; if close() throws the assignment is skipped and the error logged
CloseBrowser(d, closes, processGone) ==
  IF d.browser = 0
  THEN d
  ELSE IF closes
       THEN [d EXCEPT !.browser = 0,
                      !.openBrowsers = @ \ {d.browser},
                      !.openPages = {p \in @ : p[1] # d.browser}]
       ELSE IF processGone
            THEN [d EXCEPT !.openBrowsers = @ \ {d.browser},
                           !.openPages = {p \in @ : p[1] # d.browser}]
            ELSE d

\* scrape() is invoked: let page = null
DynScrapeStart ==
  /\ dyn.pc \in {"idle", "settled"}
  /\ dyn.runs < MaxRuns
  /\ dyn' = [dyn EXCEPT !.pc = "initBrowser", !.page = 0, !.runs = @ + 1,
                        !.reused = FALSE, !.returned = Undefined]
  /\ UNCHANGED <<orchVars, rlVars, libVars, partVars>>

\* initBrowser(): the browser held is returned as it is; otherwise
\* puppeteer.launch() yields a browser, kept in this.browser, or throws
InitBrowser ==
  /\ dyn.pc = "initBrowser"
  /\ IF dyn.browser # 0
     THEN dyn' = [dyn EXCEPT !.pc = "newPage", !.reused = TRUE]
     ELSE \/ dyn' = [dyn EXCEPT !.pc = "newPage",
                                !.browser = dyn.launched + 1,
                                !.launched = @ + 1,
                                !.openBrowsers = @ \cup {dyn.launched + 1}]
          \/ dyn' = ScrapeCatch(dyn)
  /\ UNCHANGED <<orchVars, rlVars, libVars, partVars>>

\* the rest of createPage(): browser.newPage(), setUserAgent, setViewport;
\* `page` of scrape() is assigned only when createPage returns
CreatePage ==
  /\ dyn.pc = "newPage"
  /\ LET id == dyn.created + 1
         opened == [dyn EXCEPT !.created = id,
                               !.openPages = @ \cup {<<dyn.browser, id>>}]
     IN \/ /\ dyn.browser \in dyn.openBrowsers
           /\ \/ dyn' = [opened EXCEPT !.pc = "navigate", !.page = id]
              \/ dyn' = ScrapeCatch(opened)
        \/ dyn' = ScrapeCatch(dyn)
  /\ UNCHANGED <<orchVars, rlVars, libVars, partVars>>

\* navigateToPage(page, url) returns, or throws once its retries are used up
NavigateToPage ==
  /\ dyn.pc = "navigate"
  /\ \/ dyn' = [dyn EXCEPT !.pc = "extract"]
     \/ dyn' = ScrapeCatch(dyn)
  /\ UNCHANGED <<orchVars, rlVars, libVars, partVars>>

\* the extraction loop returns the scholarships found, or throws
Extract ==
  /\ dyn.pc = "extract"
  /\ \/ dyn' = [dyn EXCEPT !.pc = "finally", !.returned = "scholarships"]
     \/ dyn' = ScrapeCatch(dyn)
  /\ UNCHANGED <<orchVars, rlVars, libVars, partVars>>

\* finally: if (page) closePage(page); closePage is page.close(), a failure
\* of which is logged and dropped
FinallyClosePage ==
  /\ dyn.pc = "finally"
  /\ IF dyn.page # 0
     THEN \/ dyn' = [dyn EXCEPT !.pc = "closeBrowser",
                                !.openPages = @ \ {<<dyn.browser, dyn.page>>}]
          \/ dyn' = [dyn EXCEPT !.pc = "closeBrowser"]
     ELSE dyn' = [dyn EXCEPT !.pc = "closeBrowser"]
  /\ UNCHANGED <<orchVars, rlVars, libVars, partVars>>

\* finally: closeBrowser(); then the promise of scrape() settles
FinallyCloseBrowser ==
  /\ dyn.pc = "closeBrowser"
  /\ \E closes \in BOOLEAN, processGone \in BOOLEAN :
       dyn' = [CloseBrowser(dyn, closes, processGone) EXCEPT !.pc = "settled"]
  /\ UNCHANGED <<orchVars, rlVars, libVars, partVars>>

NextDynamic ==
  \/ DynScrapeStart
  \/ InitBrowser
  \/ CreatePage
  \/ NavigateToPage
  \/ Extract
  \/ FinallyClosePage
  \/ FinallyCloseBrowser

----------------------------------------------------------------------------
\* Calls of the library functions: a call is drawn with its arguments and
\* returns what the function computes

NewCall(fn, arg) == [fn |-> fn, arg |-> arg, returned |-> FALSE, ret |-> Undefined]

\* an orchestrator with no extractor, a dynamic extractor that has not run,
\* and one of the calls
InitCall(calls) ==
  /\ InitOrchestrator(0, 1, 0, {<<1000, 10000>>}, {"typed"})
  /\ InitRateLimiter({1}, 0)
  /\ dyn = NewDynamicScraper
  /\ call \in calls
  /\ InitParts

Returns(fn, value) ==
  /\ call.fn = fn
  /\ ~call.returned
  /\ call' = [call EXCEPT !.returned = TRUE, !.ret = value]
  /\ UNCHANGED <<orchVars, rlVars, dynVars, partVars>>

\* one dynamic extractor on its own
SpecDynamic == InitCall({NoCall}) /\ [][NextDynamic]_vars

\* the amount texts of a scraped record: phrases, figures and separators
AmountInputs(maxFragments) ==
  LET fragments == {"Full Tuition", "Varies", "tbd", "$5,000", "$10,000", "7", "2.5",
                    " - ", " to ", "Up To ", "between ", " "}
  IN {JsValue("null", <<>>), JsValue("undefined", <<>>)}
     \cup { JsValue("string", t) : t \in Texts(fragments, maxFragments) }

\* amountParser.parse(amountString)
ParseAmount == Returns("parse", Parse(call.arg))

SpecAmount ==
  /\ InitCall({ NewCall("parse", a) : a \in AmountInputs(MaxFragments) })
  /\ [][ParseAmount]_vars

\* the degree texts of a scraped record: levels and separators
DegreeInputs(maxFragments, maxListLen) ==
  LET fragments == {"MS", "PhD", "Masters", "bachelor", "Doctorate", "Diploma", "ms",
                    "/", "|", "&", " and ", " OR ", " "}
  IN { [isArray |-> FALSE, items |-> <<t>>] : t \in Texts(fragments, maxFragments) }
     \cup { [isArray |-> TRUE, items |-> l] :
              l \in SeqsUpTo(Texts(fragments, 1), maxListLen) }

\* normalizer.normalizeDegree(raw.degree)
NormalizeDegreeReturns == Returns("normalizeDegree", NormalizeDegree(call.arg))

SpecDegree ==
  /\ InitCall({ NewCall("normalizeDegree", d) :
                  d \in DegreeInputs(MaxFragments, MaxListLen) })
  /\ [][NormalizeDegreeReturns]_vars

\* normalizeDegree over one-piece degree texts in which several synonym keys
\* can occur at once
SpecDegreeLevel ==
  /\ InitCall({ NewCall("normalizeDegree", [isArray |-> FALSE, items |-> <<t>>]) :
                  t \in Texts({"postdoctoral", "Postdoc", "post-doctoral", "doctoral",
                               "PhD", "graduate", "under", "fellow", " "},
                              MaxFragments) })
  /\ [][NormalizeDegreeReturns]_vars

\* the deadline texts of a scraped record: numeric dates in the three
\* formats, ISO dates, a written date and words
DateInputs ==
  LET dayMonthTexts == {"1", "12", "31", "02", "30", "13"}
      yearTexts == {"2024", "2023"}
      numericDateTexts ==
        { Chars(a) \o <<sep>> \o Chars(b) \o <<sep>> \o Chars(y) :
            a \in dayMonthTexts, b \in dayMonthTexts, y \in yearTexts, sep \in {"/", "-"} }
        \cup { Chars(y) \o <<"-">> \o Chars(a) \o <<"-">> \o Chars(b) :
                 a \in dayMonthTexts, b \in dayMonthTexts, y \in yearTexts }
      otherDateTexts ==
        { Chars(t) : t \in {"2024-12-31T00:00:00.000Z", "2024-03-10T07:30:00.000Z",
                            "2024-12-31T10:00", "2024-12-31", "2024",
                            "December 31, 2024", "TBD", "Rolling", ""} }
  IN { DateInput("string", t, InvalidDate) : t \in numericDateTexts \cup otherDateTexts }
     \cup { DateInput("date", <<>>, d) :
              d \in {InvalidDate, TimeValue(DaysFromCivil(2024, 12, 31), 0)} }
     \cup { DateInput("null", <<>>, InvalidDate), DateInput("undefined", <<>>, InvalidDate) }

\* normalizer.normalizeDate(raw.deadline)
NormalizeDateReturns ==
  Returns("normalizeDate", NormalizeDate(call.arg.tz, call.arg.date))

SpecDate ==
  /\ InitCall({ NewCall("normalizeDate", [tz |-> z, date |-> d]) :
                  z \in TimeZones, d \in DateInputs })
  /\ [][NormalizeDateReturns]_vars

\* the link texts of a scraped record: schemes, hosts, paths and blanks
UrlInputs(maxFragments) ==
  LET fragments == {"http://", "https://", "HTTP://", "example.com", "a b.org",
                    "/path", ":x", " "}
  IN {JsValue("null", <<>>), JsValue("undefined", <<>>)}
     \cup { JsValue("string", t) : t \in Texts(fragments, maxFragments) }

\* normalizer.normalizeURL(raw.link)
NormalizeURLReturns == Returns("normalizeURL", NormalizeURL(call.arg))

SpecURL ==
  /\ InitCall({ NewCall("normalizeURL", u) : u \in UrlInputs(MaxFragments) })
  /\ [][NormalizeURLReturns]_vars

\* new Date() when the calculator is called: an afternoon and a late evening
\* (UTC) in March 2024
NowInstants ==
  { TimeValue(DaysFromCivil(2024, 3, 11), 16 * MsPerHour),
    TimeValue(DaysFromCivil(2024, 3, 9), 23 * MsPerHour + 30 * MsPerMinute) }

\* the deadlines of the records: normalized ISO strings and Date objects from
\* a few days before to maxDaysAhead days after 2024-03-10, texts that are
\* no date, and missing deadlines
DeadlineInputs(maxDaysAhead) ==
  LET from == DaysFromCivil(2024, 3, 10)
      instants == { TimeValue(from + k, ms) :
                      k \in (-3)..maxDaysAhead, ms \in {5 * MsPerHour, 23 * MsPerHour} }
  IN { DateInput("string", ToISOString(t), InvalidDate) : t \in instants }
     \cup { DateInput("date", <<>>, TimeValue(from + k, 5 * MsPerHour)) : k \in (-3)..3 }
     \cup { DateInput("date", <<>>, InvalidDate),
            DateInput("string", Chars("TBD"), InvalidDate),
            DateInput("string", <<>>, InvalidDate),
            DateInput("null", <<>>, InvalidDate),
            DateInput("undefined", <<>>, InvalidDate) }

\* the `days` of the deadline filters
DaysArguments == {0, 7, URGENT_THRESHOLD}

\* calculator.isWithinDays(deadline, days)
IsWithinDaysReturns ==
  Returns("isWithinDays",
          IsWithinDays(call.arg.tz, call.arg.now, call.arg.deadline, call.arg.days))

\* calculator.categorizeUrgency(deadline)
CategorizeUrgencyReturns ==
  Returns("categorizeUrgency",
          CategorizeUrgency(call.arg.tz, call.arg.now, call.arg.deadline))

SpecDeadline ==
  /\ InitCall(
       { NewCall("isWithinDays", [tz |-> z, now |-> n, deadline |-> d, days |-> k]) :
           z \in TimeZones, n \in NowInstants, d \in DeadlineInputs(MaxDaysAhead),
           k \in DaysArguments }
       \cup
       { NewCall("categorizeUrgency", [tz |-> z, now |-> n, deadline |-> d, days |-> 0]) :
           z \in TimeZones, n \in NowInstants, d \in DeadlineInputs(MaxDaysAhead) })
  /\ [][IsWithinDaysReturns \/ CategorizeUrgencyReturns]_vars

----------------------------------------------------------------------------
\* ScholarshipValidator

\* an array of strings
JsArray(items) == [type |-> "array", text |-> items]

\* String(value) of a string or of an array of strings (joined with ",")
StringOfValue(value) ==
  IF value.type = "string" THEN value.text
  ELSE LET join[k \in 0..Len(value.text)] ==
             IF k = 0 THEN <<>>
             ELSE IF k = 1 THEN value.text[1]
             ELSE join[k - 1] \o <<",">> \o value.text[k]
       IN join[Len(value.text)]

SCHOLARSHIP_SCHEMA ==
  [required |-> <<"name", "source", "link">>,
   optional |-> <<"country", "degree", "deadline", "description", "eligibility", "amount">>,
   constraints |->
     [name |-> [minLength |-> 3, maxLength |-> 500],
      source |-> [minLength |-> 2, maxLength |-> 100],
      link |-> [pattern |-> "^https?:\\/\\/.+"],
      description |-> [maxLength |-> 5000],
      eligibility |-> [maxLength |-> 3000],
      amount |-> [maxLength |-> 200],
      country |-> [maxLength |-> 200],
      degree |-> [maxLength |-> 200]]]

ValidationError(field, message, severity) ==
  [field |-> field, message |-> message, severity |-> severity]

\* value === undefined || value === null || value === ''
MissingOrEmpty(value) ==
  value.type \in {"undefined", "null"} \/ (value.type = "string" /\ value.text = <<>>)

\* the over-long value is pushed to errors
ValidateFieldConstraints_MaxError(field, value, found) ==
  IF field \notin DOMAIN SCHOLARSHIP_SCHEMA.constraints THEN found
  ELSE LET constraints == SCHOLARSHIP_SCHEMA.constraints[field]
           check(length) ==
             [errors |->
                found.errors
                \o (IF "maxLength" \in DOMAIN constraints /\ length > constraints.maxLength
                    THEN << ValidationError(field, <<"Field '", field, "' exceeds maximum length">>, "major") >>
                    ELSE <<>>),
              warnings |-> found.warnings]
       IN check(Len(StringOfValue(value)))

\* validateFieldConstraints(field, value, errors, warnings): the two lists
\* after the call
ValidateFieldConstraints(field, value, found) ==
  IF field \notin DOMAIN SCHOLARSHIP_SCHEMA.constraints THEN found
  ELSE LET constraints == SCHOLARSHIP_SCHEMA.constraints[field]
           \* /^https?:\/\/.+/.test(s)
           LinkPatternTest(s) ==
             LET after(prefix) ==
                   /\ MatchesAt(s, prefix, 1)
                   /\ Len(s) > Len(prefix)
                   /\ s[Len(prefix) + 1] \notin {"\n", "\r"}
             IN after(Chars("http://")) \/ after(Chars("https://"))
           check(stringValue) ==
             [errors |->
                found.errors
                \o (IF "minLength" \in DOMAIN constraints /\ Len(stringValue) < constraints.minLength
                    THEN << ValidationError(field, <<"Field '", field, "' must be at least ",
                                                     ToString(constraints.minLength), " characters">>,
                                            "major") >>
                    ELSE <<>>)
                \o (IF "pattern" \in DOMAIN constraints /\ ~LinkPatternTest(stringValue)
                    THEN << ValidationError(field, <<"Field '", field,
                                                     "' does not match required pattern">>, "major") >>
                    ELSE <<>>),
              warnings |->
                found.warnings
                \o (IF "maxLength" \in DOMAIN constraints /\ Len(stringValue) > constraints.maxLength
                    THEN << [field |-> field,
                             message |-> <<"Field '", field, "' exceeds maximum length of ",
                                           ToString(constraints.maxLength), " characters">>,
                             suggestion |-> "Value will be truncated"] >>
                    ELSE <<>>)]
       IN check(StringOfValue(value))

\* validate(scholarship)
Validate(scholarship) ==
  LET required == SCHOLARSHIP_SCHEMA.required
      optional == SCHOLARSHIP_SCHEMA.optional
      afterRequired[k \in 0..Len(required)] ==
        IF k = 0 THEN [errors |-> <<>>, warnings |-> <<>>]
        ELSE IF MissingOrEmpty(scholarship[required[k]])
        THEN [afterRequired[k - 1] EXCEPT
                !.errors = Append(@, ValidationError(required[k],
                                       <<"Required field '", required[k], "' is missing or empty">>,
                                       "critical"))]
        ELSE ValidateFieldConstraints(required[k], scholarship[required[k]], afterRequired[k - 1])
      afterOptional[k \in 0..Len(optional)] ==
        IF k = 0 THEN afterRequired[Len(required)]
        ELSE IF ~MissingOrEmpty(scholarship[optional[k]])
        THEN ValidateFieldConstraints(optional[k], scholarship[optional[k]], afterOptional[k - 1])
        ELSE afterOptional[k - 1]
      result(found) ==
        [isValid |-> Len(found.errors) = 0, errors |-> found.errors, warnings |-> found.warnings]
  IN result(afterOptional[Len(optional)])

\* the records handed to validate: fields that are missing, empty, too
\* short, acceptable, and one character longer than the maximum length
ValidatorInputs ==
  LET str(text) == JsValue("string", Chars(text))
      \* a string of n characters
      Repeat(c, n) == [i \in 1..n |-> c]
      long(n) == JsValue("string", Repeat("a", n + 1))
      max(field) == SCHOLARSHIP_SCHEMA.constraints[field].maxLength
      absent == JsValue("null", <<>>)
  IN { [name |-> n, source |-> s, link |-> l, country |-> c, degree |-> d,
        deadline |-> str("2025-01-15T00:00:00.000Z"), description |-> ds,
        eligibility |-> e, amount |-> a, scrapedAt |-> str("2024-03-10T12:00:00.000Z")] :
       n \in {JsValue("undefined", <<>>), str(""), str("ab"), str("MIT"), long(max("name"))},
       s \in {absent, str(""), str("M"), str("MIT"), long(max("source"))},
       l \in {JsValue("undefined", <<>>), str(""), str("https://mit.edu"), str("http://"), str("mit.edu")},
       c \in {str("USA"), JsArray(<<Chars("USA"), Repeat("a", max("country"))>>)},
       d \in {JsArray(<<Chars("PhD")>>), JsArray(<<Repeat("a", max("degree") + 1)>>)},
       ds \in {absent, long(max("description"))},
       e \in {str(""), long(max("eligibility"))},
       a \in {absent, long(max("amount"))} }

\* validator.validate(scholarship)
ValidateReturns == Returns("validate", Validate(call.arg))

SpecValidator ==
  /\ InitCall({ NewCall("validate", r) : r \in ValidatorInputs })
  /\ [][ValidateReturns]_vars

----------------------------------------------------------------------------
\* GET /scholarships (routes/api.ts)

\* the handler of GET /scholarships, given the query and the list that
\* orchestrator.getScholarships(summary) returned: the response
SearchScholarships(query, all) ==
  LET \* parseInt(text, 10): leading white space, an optional sign and the
      \* digits that follow; Null stands for NaN
      ParseIntRadix10(text) ==
        LET start == IF \E i \in 1..Len(text) : text[i] # " "
                     THEN First({ i \in 1..Len(text) : text[i] # " " })
                     ELSE Len(text) + 1
            signed == start <= Len(text) /\ text[start] \in {"+", "-"}
            from == IF signed THEN start + 1 ELSE start
            stops == { i \in from..Len(text) : ~IsDigit(text[i]) }
            to == IF stops = {} THEN Len(text) ELSE First(stops) - 1
        IN IF to < from THEN Null
           ELSE <<Signed(IF signed THEN text[start] ELSE "+",
                         ParseInt(SubSeq(text, from, to)))>>
      limit ==
        IF Falsy(query.limit) THEN 50
        ELSE LET clamp(parsedLimit) ==
                   IF parsedLimit = Null THEN 50
                   ELSE Min(Max(parsedLimit[1], 1), 100)
             IN clamp(ParseIntRadix10(query.limit.text))
      some(list, lower) ==
        \E k \in 1..Len(list) : Includes(ToLowerCase(list[k]), lower)
      byCountry(scholarships) ==
        IF Falsy(query.country) THEN scholarships
        ELSE SelectSeq(scholarships,
               LAMBDA s : some(IF s.country.type = "array" THEN s.country.text
                               ELSE <<s.country.text>>,
                               ToLowerCase(query.country.text)))
      byDegree(scholarships) ==
        IF Falsy(query.degree) THEN scholarships
        ELSE SelectSeq(scholarships,
               LAMBDA s : some(s.degree.text, ToLowerCase(query.degree.text)))
      slice(scholarships) == SubSeq(scholarships, 1, Min(limit, Len(scholarships)))
  IN [status |-> 200, body |-> slice(byDegree(byCountry(all)))]

\* lists of canonical records: every list of at most maxListLen records, and
\* lists longer than the default and the largest limit; the name of a record
\* tells its place in the list
CanonicalLists(maxListLen) ==
  LET kinds ==
        << [country |-> JsValue("string", Chars("Germany")),
            degree |-> JsArray(<<Chars("PhD")>>)],
           [country |-> JsArray(<<Chars("United States"), Chars("Germany")>>),
            degree |-> JsArray(<<Chars("Masters"), Chars("PhD")>>)],
           [country |-> JsValue("string", Chars("United States")),
            degree |-> JsArray(<<Chars("Bachelors")>>)] >>
      record(i, kind) ==
        [name |-> <<"N", "o", " ">> \o Pad(i, 1), country |-> kinds[kind].country,
         degree |-> kinds[kind].degree]
  IN { [i \in 1..Len(q) |-> record(i, q[i])] : q \in SeqsUpTo(1..Len(kinds), maxListLen) }
     \cup { [i \in 1..n |-> record(i, (i % Len(kinds)) + 1)] : n \in {51, 101} }

\* router.get('/scholarships', ...)
SearchScholarshipsReturns ==
  Returns("scholarships", SearchScholarships(call.arg.query, call.arg.all))

SpecSearch ==
  /\ InitCall(
       { NewCall("scholarships",
                 [query |-> [country |-> c, degree |-> d, limit |-> l], all |-> list]) :
           c \in { JsValue("undefined", <<>>), JsValue("string", Chars("ger")),
                   JsValue("string", Chars("STATES")) },
           d \in { JsValue("undefined", <<>>), JsValue("string", <<>>),
                   JsValue("string", Chars("phd")) },
           l \in { JsValue("undefined", <<>>) }
                 \cup { JsValue("string", Chars(t)) :
                          t \in {"", "0", "1", "2", "-5", "100", "250", " 2", "abc", "2abc"} },
           list \in CanonicalLists(MaxListLen) })
  /\ [][SearchScholarshipsReturns]_vars

----------------------------------------------------------------------------
\* scrapeSource of a static extractor: executeWithRetry of the orchestrator
\* around scrape(), and executeWithRetry of the extractor around the request
\* of fetchHTML

\* the RetryHandler a static extractor is constructed with
FetchRetry == [retries |-> 3, baseDelay |-> 1000, maxDelay |-> 10000]

\* scrapeSource(scraper): attempt 0 of the orchestrator's retry loop calls
\* scrape(), whose fetchHTML enters attempt 0 of its own retry loop
ScrapeSourceStart ==
  /\ fetch.pc = "idle"
  /\ fetch' = [fetch EXCEPT !.pc = "fetching"]
  /\ UNCHANGED <<orchVars, rlVars, dynVars, libVars, overlap, filterState>>

\* makeRequest resolves with response.ok: fetchHTML returns the html, scrape()
\* returns the records found and scrapeSource a successful result
FetchResolves ==
  /\ fetch.pc = "fetching"
  /\ fetch' = [fetch EXCEPT !.pc = "settled", !.fetches = @ + 1, !.result = "success"]
  /\ UNCHANGED <<orchVars, rlVars, dynVars, libVars, overlap, filterState>>

\* makeRequest rejects or the status is not 2xx: the retry loop of fetchHTML
\* waits and goes on; on its last attempt it throws, scrape() rethrows, and
\* the retry loop of scrapeSource waits and goes on, or on its last attempt
\* throws into the catch block of scrapeSource
FetchFails ==
  /\ fetch.pc = "fetching"
  /\ LET failed == [fetch EXCEPT !.fetches = @ + 1, !.failures = @ + 1]
     IN fetch' =
          IF ~IsLastAttempt(fetch.fetchAttempt, FetchRetry.retries)
          THEN [failed EXCEPT !.pc = "fetchDelay",
                              !.delay = BackoffDelay(FetchRetry.baseDelay, FetchRetry.maxDelay,
                                                     fetch.fetchAttempt)]
          ELSE IF ~IsLastAttempt(fetch.attempt, config.retry.retries)
          THEN [failed EXCEPT !.pc = "retryDelay",
                              !.delay = BackoffDelay(config.retry.baseDelay,
                                                     config.retry.maxDelay, fetch.attempt)]
          ELSE [failed EXCEPT !.pc = "settled", !.result = "failed"]
  /\ UNCHANGED <<orchVars, rlVars, dynVars, libVars, overlap, filterState>>

\* the delay of fetchHTML's retry loop is over: its next attempt
FetchDelayElapsed ==
  /\ fetch.pc = "fetchDelay"
  /\ fetch' = [fetch EXCEPT !.pc = "fetching", !.fetchAttempt = @ + 1]
  /\ UNCHANGED <<orchVars, rlVars, dynVars, libVars, overlap, filterState>>

\* the delay of scrapeSource's retry loop is over: scrape() is called again
\* and fetchHTML starts a retry loop of its own
RetryDelayElapsed ==
  /\ fetch.pc = "retryDelay"
  /\ fetch' = [fetch EXCEPT !.pc = "fetching", !.attempt = @ + 1, !.fetchAttempt = 0]
  /\ UNCHANGED <<orchVars, rlVars, dynVars, libVars, overlap, filterState>>

\* one static extractor under every retry policy up to the default one
SpecFetch ==
  /\ InitScrapeAll(0, 1, MaxRetriesSingle, {<<1000, 10000>>, <<1000, 3000>>}, {"typed"})
  /\ [][ScrapeSourceStart \/ FetchResolves \/ FetchFails \/ FetchDelayElapsed
          \/ RetryDelayElapsed]_vars

----------------------------------------------------------------------------
\* One dynamic extractor of scraperInstances under two scrapeAll calls at a
\* time: scrape() invocations 1 and 2 run on the same object, whose
\* this.browser they both read and write; every await is a step

\* scrape() is invoked by a scrapeAll call: let page = null
OvScrapeStart(k) ==
  /\ overlap.scrape[k].pc \in {"idle", "settled"}
  /\ overlap.scrape[k].runs < MaxRuns
  /\ overlap' = [overlap EXCEPT !.scrape[k] =
                   [pc |-> "initBrowser", browser |-> 0, page |-> FALSE,
                    runs |-> @.runs + 1, returned |-> Undefined]]
  /\ UNCHANGED <<orchVars, rlVars, dynVars, libVars, fetch, filterState>>

\* createPage() calls initBrowser(): the browser held in this.browser is
\* returned as it is; otherwise puppeteer.launch() is awaited
OvInitBrowser(k) ==
  /\ overlap.scrape[k].pc = "initBrowser"
  /\ overlap' = IF overlap.browser # 0
                THEN [overlap EXCEPT !.scrape[k].pc = "newPage",
                                     !.scrape[k].browser = overlap.browser]
                ELSE [overlap EXCEPT !.scrape[k].pc = "launch"]
  /\ UNCHANGED <<orchVars, rlVars, dynVars, libVars, fetch, filterState>>

\* puppeteer.launch() settles: the new browser is assigned to this.browser
\* and returned, or the rejection is rethrown to the catch of scrape()
OvLaunchSettles(k) ==
  /\ overlap.scrape[k].pc = "launch"
  /\ \/ LET id == overlap.launched + 1
        IN overlap' = [overlap EXCEPT !.browser = id,
                                      !.launched = id,
                                      !.openBrowsers = @ \cup {id},
                                      !.scrape[k].pc = "newPage",
                                      !.scrape[k].browser = id]
     \/ overlap' = [overlap EXCEPT !.scrape[k].pc = "finally",
                                   !.scrape[k].returned = <<>>]
  /\ UNCHANGED <<orchVars, rlVars, dynVars, libVars, fetch, filterState>>

\* browser.newPage() and the page set-up settle; on a closed browser they
\* reject; `page` of scrape() is assigned only when createPage returns
OvCreatePage(k) ==
  /\ overlap.scrape[k].pc = "newPage"
  /\ \/ /\ overlap.scrape[k].browser \in overlap.openBrowsers
        /\ overlap' = [overlap EXCEPT !.scrape[k].pc = "extract",
                                      !.scrape[k].page = TRUE]
     \/ overlap' = [overlap EXCEPT !.scrape[k].pc = "finally",
                                   !.scrape[k].returned = <<>>]
  /\ UNCHANGED <<orchVars, rlVars, dynVars, libVars, fetch, filterState>>

\* navigateToPage and the extraction return the scholarships found; on a
\* closed browser, or on a failure of the site, they throw and the catch of
\* scrape() returns []
OvExtract(k) ==
  /\ overlap.scrape[k].pc = "extract"
  /\ \/ /\ overlap.scrape[k].browser \in overlap.openBrowsers
        /\ overlap' = [overlap EXCEPT !.scrape[k].pc = "finally",
                                      !.scrape[k].returned = "scholarships"]
     \/ overlap' = [overlap EXCEPT !.scrape[k].pc = "finally",
                                   !.scrape[k].returned = <<>>]
  /\ UNCHANGED <<orchVars, rlVars, dynVars, libVars, fetch, filterState>>

\* finally: if (page) closePage(page); closeBrowser() closes the browser
\* held in this.browser and sets it to null, a failure of close() being
\* logged and dropped; then the promise of scrape() settles
OvFinally(k) ==
  /\ overlap.scrape[k].pc = "finally"
  /\ \/ overlap' = [overlap EXCEPT !.openBrowsers = @ \ {overlap.browser},
                                   !.browser = 0,
                                   !.scrape[k].pc = "settled",
                                   !.scrape[k].page = FALSE]
     \/ /\ overlap.browser # 0
        /\ overlap' = [overlap EXCEPT !.scrape[k].pc = "settled",
                                      !.scrape[k].page = FALSE]
  /\ UNCHANGED <<orchVars, rlVars, dynVars, libVars, fetch, filterState>>

SpecOverlap ==
  /\ InitCall({NoCall})
  /\ [][\E k \in {1, 2} :
          \/ OvScrapeStart(k)
          \/ OvInitBrowser(k)
          \/ OvLaunchSettles(k)
          \/ OvCreatePage(k)
          \/ OvExtract(k)
          \/ OvFinally(k)]_vars

----------------------------------------------------------------------------
\* FilterState

\* the filter values that are not the default, under their names
GetActiveFilters_NoDegree(fs) ==
  [name \in { n \in {"amountRange", "deadlineRange"} : fs[n] # "any" }
             \cup { n \in {"country"} : fs[n] # "" } |-> fs[name]]

\* getActiveFilters(): one test per filter, in the order of the ifs
GetActiveFilters(fs) ==
  LET amountRange == IF fs.amountRange # "any" THEN {"amountRange"} ELSE {}
      deadlineRange == IF fs.deadlineRange # "any" THEN {"deadlineRange"} ELSE {}
      country == IF fs.country # "" THEN {"country"} ELSE {}
      degree == IF fs.degree # "" THEN {"degree"} ELSE {}
  IN [name \in amountRange \cup deadlineRange \cup country \cup degree |-> fs[name]]

\* hasActiveFilters()
HasActiveFilters(fs) ==
  \/ fs.amountRange # "any"
  \/ fs.deadlineRange # "any"
  \/ fs.country # ""
  \/ fs.degree # ""

\* setFilter(filterName, value): this.hasOwnProperty(filterName) holds for
\* the four properties of the constructor and for no method or other name
SetFilter(filterName, value) ==
  /\ filterState' =
       [(IF filterName \in {"amountRange", "deadlineRange", "country", "degree"}
         THEN [filterState EXCEPT ![filterName] = value]
         ELSE filterState)
        EXCEPT !.lastCall = [method |-> "setFilter", filterName |-> filterName]]
  /\ UNCHANGED <<orchVars, rlVars, dynVars, libVars, fetch, overlap>>

\* resetAll()
ResetAll ==
  /\ filterState' = [NewFilterState EXCEPT
                       !.lastCall = [method |-> "resetAll", filterName |-> Undefined]]
  /\ UNCHANGED <<orchVars, rlVars, dynVars, libVars, fetch, overlap>>

\* a FilterState of the page under the calls the controls and scripts make
SpecFilterState ==
  /\ InitCall({NoCall})
  /\ [][\/ \E filterName \in {"amountRange", "deadlineRange", "country", "degree",
                              "sortBy", "resetAll", "hasOwnProperty"},
              value \in {"any", "", "5000-10000", "Germany", "PhD"} :
              SetFilter(filterName, value)
        \/ ResetAll]_vars

----------------------------------------------------------------------------
\* FilterEngine

\* applyFilters(scholarships, filterState) on an array of records, `filters`
\* being the filterState and `today` the clock of the page in its time zone:
\* what it returns, or the error it throws
ApplyFilters(tz, today, scholarships, filters) ==
  LET AMOUNT_RANGES ==
        [ r \in {"any", "under-5k", "5k-10k", "10k-20k", "20k-plus", "full-tuition",
                 "not-specified"} |->
            CASE r = "any" -> [special |-> "", min |-> 0, max |-> Null]
              [] r = "under-5k" -> [special |-> "", min |-> 0, max |-> <<5000>>]
              [] r = "5k-10k" -> [special |-> "", min |-> 5000, max |-> <<10000>>]
              [] r = "10k-20k" -> [special |-> "", min |-> 10000, max |-> <<20000>>]
              [] r = "20k-plus" -> [special |-> "", min |-> 20000, max |-> Null]
              [] r = "full-tuition" -> [special |-> "full", min |-> 0, max |-> Null]
              [] r = "not-specified" -> [special |-> "none", min |-> 0, max |-> Null] ]
      DEADLINE_RANGES == [ r \in {"within-30", "within-60", "within-90"} |->
                             CASE r = "within-30" -> 30
                               [] r = "within-60" -> 60
                               [] r = "within-90" -> 90 ]
      return(list) == [kind |-> "return", value |-> list]
      \* the test of filterByAmount on the parsed amount
      inRange(rangeConfig, parsed) ==
        IF rangeConfig.special = "full" THEN parsed.isFullTuition
        ELSE IF rangeConfig.special = "none"
        THEN parsed.value = Null /\ ~parsed.isFullTuition
        ELSE IF parsed.value = Null THEN FALSE
        ELSE /\ parsed.value[1].whole >= rangeConfig.min
             /\ rangeConfig.max = Null \/ parsed.value[1].whole < rangeConfig.max[1]
      filterByAmount(list) ==
        IF filters.amountRange \notin DOMAIN AMOUNT_RANGES THEN list
        ELSE SelectSeq(list, LAMBDA s :
                         inRange(AMOUNT_RANGES[filters.amountRange], Parse(s.amount)))
      filterByDeadline(list) ==
        IF filters.deadlineRange \notin DOMAIN DEADLINE_RANGES THEN list
        ELSE SelectSeq(list, LAMBDA s :
                         IsWithinDays(tz, today, s.deadline,
                                      DEADLINE_RANGES[filters.deadlineRange]))
      \* filterByCountry and filterByDegree: a record whose field is falsy is
      \* left out; toLowerCase is a method of strings, not of arrays
      filterByText(list, field, text) ==
        IF \E k \in 1..Len(list) : list[k][field].type = "array"
        THEN [kind |-> "throw", value |-> "TypeError"]
        ELSE return(SelectSeq(list, LAMBDA s :
                       /\ ~Falsy(s[field])
                       /\ Trim(ToLowerCase(s[field].text)) = Trim(ToLowerCase(text))))
      amount(list) ==
        IF filters.amountRange \notin {"", "any"} THEN filterByAmount(list) ELSE list
      deadline(list) ==
        IF filters.deadlineRange \notin {"", "any"} THEN filterByDeadline(list)
        ELSE list
      country(list) ==
        IF filters.country # <<>> THEN filterByText(list, "country", filters.country)
        ELSE return(list)
      degree(filtered) ==
        IF filtered.kind = "throw" THEN filtered
        ELSE IF filters.degree # <<>>
        THEN filterByText(filtered.value, "degree", filters.degree)
        ELSE filtered
  IN degree(country(deadline(amount(scholarships))))

\* filterEngine.applyFilters(scholarships, filterState)
ApplyFiltersReturns ==
  Returns("applyFilters",
          ApplyFilters(call.arg.tz, call.arg.now, call.arg.scholarships,
                       call.arg.filterState))

\* applyFilters over lists of canonical records (degree a list, country a
\* string or a list) and the filter states the controls can produce
SpecFilter ==
  /\ InitCall(
       LET record(amount, daysAhead, country, degree) ==
             [amount |-> amount,
              deadline |-> DateInput("string",
                             ToISOString(TimeValue(DaysFromCivil(2024, 3, 11) + daysAhead, 0)),
                             InvalidDate),
              country |-> country, degree |-> degree]
           records ==
             { record(JsValue("string", Chars("$3,000")), 10,
                      JsValue("string", Chars("Germany")), JsArray(<<Chars("PhD")>>)),
               record(JsValue("string", Chars("Full Tuition")), 100,
                      JsArray(<<Chars("United States"), Chars("Germany")>>),
                      JsArray(<<Chars("Masters"), Chars("PhD")>>)),
               record(JsValue("null", <<>>), 45,
                      JsValue("string", Chars("United States")), JsArray(<<>>)) }
       IN { NewCall("applyFilters",
                    [tz |-> CHOOSE z \in TimeZones : z.name = "UTC",
                     now |-> TimeValue(DaysFromCivil(2024, 3, 11), 16 * MsPerHour),
                     scholarships |-> l,
                     filterState |-> [amountRange |-> a, deadlineRange |-> d,
                                      country |-> Chars(c), degree |-> Chars(g)]]) :
              l \in SeqsUpTo(records, MaxListLen),
              a \in {"any", "under-5k", "full-tuition", "not-specified", "over-1m"},
              d \in {"any", "within-30", "within-60"},
              c \in {"", "germany ", "United States"},
              g \in {"", "PhD", "masters"} })
  /\ [][ApplyFiltersReturns]_vars

----------------------------------------------------------------------------
\* Properties

Retries == config.retry.retries

InFlight == { i \in Tasks : pc[i] \in {"scraping", "backoff"} }

\* every invocation of scrape() by task i has thrown and none is left
Exhausted(i) == pc[i] = "settled" /\ hist[i].throws = Retries + 1

ExhaustedTasks == { i \in Tasks : Exhausted(i) }

\* C1: at every moment of scrapeAll the number of extractors admitted and not
\* yet finished, those in retry backoff included, is at most the concurrency
C1_InFlightBounded == Cardinality(InFlight) <= config.concurrency

C1_Witness ==
  /\ Cardinality(InFlight) = config.concurrency
  /\ queue # <<>>
  /\ \E i \in InFlight : pc[i] = "backoff"
  /\ \E i \in Tasks : pc[i] = "settled"

\* C2: no exception escapes scrapeAll: no task's promise is rejected, an
\* extractor whose scrape() threw on every attempt ends as a result with
\* success = false and the error's message, and when scrapeAll returns every
\* extractor has run to its own result
C2_NoExceptionEscapes ==
  /\ runState # "rejected"
  /\ \A i \in Tasks :
       /\ settled[i].state # "rejected"
       /\ Exhausted(i) =>
            /\ settled[i].state = "fulfilled"
            /\ settled[i].value.success = FALSE
            /\ settled[i].value.error = hist[i].lastThrown.message
            /\ settled[i].value.error # Undefined
  /\ runState = "returned" =>
       /\ Len(summary.results) = N
       /\ \A i \in Tasks : pc[i] = "settled" /\ hist[i].calls >= 1

C2_Witness ==
  /\ runState = "returned"
  /\ \E i, j \in Tasks :
       /\ Exhausted(i) /\ hist[i].throws >= 2
       /\ summary.results[i].success = FALSE
       /\ summary.results[j].success = TRUE
       /\ summary.results[j].count > 0

C4_ResultOrder ==
  runState = "returned" =>
    \A i \in Tasks :
      /\ summary.results[i].source = scrapers[i].name
      /\ summary.results[i].success = (hist[i].returned # <<>>)
      /\ summary.results[i].success =>
           /\ summary.results[i].count = Len(hist[i].returned[1])
           /\ \A k \in 1..summary.results[i].count :
                summary.results[i].scholarships[k].source = scrapers[i].name

C4_Witness ==
  /\ runState = "returned"
  /\ outOfOrder
  /\ N >= 2
  /\ \E i \in Tasks : hist[i].throws >= 1

\* the normalized records of the extractors that returned, in list order
RECURSIVE ReturnedFrom(_)
ReturnedFrom(i) ==
  IF i > N THEN <<>>
  ELSE (IF hist[i].returned # <<>>
        THEN [k \in 1..Len(hist[i].returned[1]) |->
                [name |-> Trim(hist[i].returned[1][k].name),
                 source |-> hist[i].returned[1][k].source]]
        ELSE <<>>) \o ReturnedFrom(i + 1)

\* C5: getScholarships(summary) is the concatenation, in result order, of the
\* scholarships of exactly the successful results, and its length is
\* summary.totalScholarships
C5_GetScholarships ==
  runState = "returned" =>
    /\ GetScholarships(summary) = ReturnedFrom(1)
    /\ Len(GetScholarships(summary)) = summary.totalScholarships
    /\ \A k \in 1..Len(GetScholarships(summary)) :
         \E i \in Tasks :
           /\ summary.results[i].success
           /\ GetScholarships(summary)[k].source = summary.results[i].source

C5_Witness ==
  /\ runState = "returned"
  /\ \E i, j, m \in Tasks :
       /\ i < j /\ j < m
       /\ summary.results[i].success /\ summary.results[i].count = 2
       /\ ~summary.results[j].success
       /\ summary.results[m].success /\ summary.results[m].count = 2
  /\ Len(GetScholarships(summary)) = 4

\* C6: the operation is invoked at most retries + 1 times and never after a
\* success; a first success on attempt k comes after exactly k invocations
\* and k - 1 onRetry calls numbered 1..k-1, the n-th made after the n-th
\* invocation and before the next one
C6_RetryCounts ==
  \A i \in Tasks :
    /\ hist[i].calls <= Retries + 1
    /\ \A n \in 1..Len(hist[i].onRetry) :
         /\ hist[i].onRetry[n].attempt = n
         /\ hist[i].onRetry[n].calls = n
    /\ Len(hist[i].onRetry) <= hist[i].calls
    /\ (pc[i] = "settled" /\ hist[i].returned # <<>>) =>
         LET k == hist[i].throws + 1 IN
         /\ k <= Retries + 1
         /\ hist[i].calls = k
         /\ Len(hist[i].onRetry) = k - 1
         /\ settled[i].value.success
         /\ settled[i].value.count = Len(hist[i].returned[1])

C6_Witness ==
  \E i \in Tasks :
    /\ Retries = 3
    /\ pc[i] = "settled"
    /\ hist[i].returned # <<>>
    /\ hist[i].calls = 3
    /\ Len(hist[i].onRetry) = 2

RECURSIVE Doubled(_, _)
Doubled(d, n) == IF n = 0 THEN d ELSE Doubled(d + d, n - 1)

\* C7: the wait before the (n+1)-th retry is min(baseDelay * 2^n, maxDelay):
\* non-decreasing, never above maxDelay, 1000, 2000, 4000 ms with the
\* defaults, and none after the final failed attempt
C7_BackoffDelays ==
  \A i \in Tasks :
    LET d == hist[i].delays IN
    /\ \A n \in 1..Len(d) :
         /\ d[n].ms = Min(Doubled(config.retry.baseDelay, n - 1), config.retry.maxDelay)
         /\ d[n].ms <= config.retry.maxDelay
         /\ d[n].calls = n
         /\ n > 1 => d[n - 1].ms <= d[n].ms
    /\ config.retry = DefaultRetry =>
         \A n \in 1..Len(d) : d[n].ms = <<1000, 2000, 4000>>[n]
    /\ Len(d) <= Retries
    /\ Exhausted(i) => Len(d) = hist[i].throws - 1
    /\ pc[i] = "backoff" => (Len(d) = hist[i].calls /\ hist[i].calls <= Retries)
    /\ pc[i] # "backoff" => Len(d) <= Max(hist[i].calls - 1, 0)

C7_Witness ==
  \E i \in Tasks :
    /\ config.retry = DefaultRetry
    /\ Exhausted(i)
    /\ hist[i].calls = 4
    /\ Len(hist[i].delays) = 3
    /\ hist[i].delays[3].ms = 4000

\* C8: when all retries + 1 attempts fail, executeWithRetry fails with the
\* very error the last attempt threw
C8_LastErrorRethrown ==
  \A i \in Tasks :
    Exhausted(i) =>
      /\ hist[i].failedWith = hist[i].lastThrown
      /\ hist[i].failedWith.at = Retries + 1
      /\ settled[i].value.error = hist[i].lastThrown.message

C8_Witness ==
  \E i \in Tasks :
    /\ Exhausted(i)
    /\ Retries >= 2
    /\ hist[i].failedWith = hist[i].lastThrown
    /\ hist[i].failedWith.at = Retries + 1

Started(c) == callers[c].pc \in {"running", "done"}

\* C9: the start times of any two operations run through one RateLimiter are
\* at least 1000 / requestsPerSecond ms apart
C9_Spacing ==
  \A c1, c2 \in DOMAIN callers :
    (c1 # c2 /\ Started(c1) /\ Started(c2)) =>
      \/ callers[c1].started - callers[c2].started >= rateLimiter.interval
      \/ callers[c2].started - callers[c1].started >= rateLimiter.interval

\* every I/O of the extractor's scrape() invocations has failed
AllIoFailed(i) ==
  /\ hist[i].io # <<>>
  /\ \A k \in 1..Len(hist[i].io) : ~hist[i].io[k]

\* C10: a source whose extraction fails on every attempt with a transient
\* error is recorded with success = false and an error message and counted
\* in failedSources
C10_TransientFailureRecorded ==
  runState = "returned" =>
    /\ \A i \in Tasks :
         AllIoFailed(i) =>
           /\ summary.results[i].success = FALSE
           /\ summary.results[i].error # Undefined
    /\ summary.failedSources >= Cardinality({ i \in Tasks : AllIoFailed(i) })

----------------------------------------------------------------------------
\* C11: whenever scrape() of a dynamic extractor has settled, every page and
\* browser it opened has been closed and the extractor holds no browser
\* (this.browser is null), and no scrape() has started on a browser left over
\* from an earlier run.
C11_SessionReleased ==
  /\ dyn.pc = "settled" =>
       /\ dyn.browser = 0
       /\ dyn.openBrowsers = {}
       /\ dyn.openPages = {}
  /\ ~dyn.reused

----------------------------------------------------------------------------
\* Amount texts as the claims describe them

Parsed == call.fn = "parse" /\ call.returned /\ call.arg.type = "string"

HasFullCoveragePhrase ==
  \E k \in FullCoverageKeywords : Includes(ToLowerCase(call.arg.text), k)

HasVariableKeyword ==
  \E k \in VariableKeywords : Includes(ToLowerCase(call.arg.text), k)

NumericTokens == ExtractAllNumericValues(call.arg.text)

\* C12: an amount text that contains a full-coverage phrase (in any case) is
\* parsed as isFullTuition with value null and isRange and isVariable false,
\* whatever else it contains; a text with a variable keyword is parsed as
\* isVariable exactly when it has no full-coverage phrase.
C12_FullCoverageWins ==
  Parsed =>
    /\ HasFullCoveragePhrase =>
         /\ call.ret.isFullTuition
         /\ call.ret.value = Null
         /\ ~call.ret.isRange
         /\ ~call.ret.isVariable
    /\ (HasVariableKeyword /\ ~HasFullCoveragePhrase) =>
         /\ call.ret.isVariable
         /\ call.ret.value = Null
         /\ ~call.ret.isRange
         /\ ~call.ret.isFullTuition
    /\ call.ret.isVariable => ~HasFullCoveragePhrase

\* a full-coverage phrase next to a variable keyword and a figure
C12_Witness ==
  /\ Parsed
  /\ HasFullCoveragePhrase
  /\ HasVariableKeyword
  /\ NumericTokens # <<>>
  /\ call.ret.isFullTuition

\* C13: an amount text without full-coverage phrase and variable keyword that
\* matches a range pattern is parsed as isRange with the largest of its
\* numeric tokens as value (the token itself when there is one);
\* "$5,000 - $10,000" gives 10000.
C13_RangeMax ==
  (Parsed /\ ~HasFullCoveragePhrase /\ ~HasVariableKeyword
          /\ IsRangeFormat(call.arg.text)) =>
    /\ call.ret.isRange
    /\ NumericTokens # <<>> =>
         /\ call.ret.value # Null
         /\ \E k \in 1..Len(NumericTokens) : NumericTokens[k] = call.ret.value[1]
         /\ \A k \in 1..Len(NumericTokens) : NumLeq(NumericTokens[k], call.ret.value[1])
    /\ call.arg.text = Chars("$5,000 - $10,000") =>
         call.ret.value = Number(10000, <<>>)
    /\ call.arg.text = Chars("Up To $5,000") =>
         call.ret.value = Number(5000, <<>>)

\* a range whose larger figure comes first
C13_Witness ==
  /\ Parsed
  /\ call.arg.text = Chars("$10,000 - $5,000")
  /\ call.ret.isRange
  /\ call.ret.value = Number(10000, <<>>)

\* C14 as stated: for null text and for every text with no numeric token and no
\* full-coverage or variable keyword, parse returns value null, the three
\* flags false and the empty string as originalText.
C14_NonNumericEmptyOriginal ==
  (call.fn = "parse" /\ call.returned) =>
    ((call.arg.type # "string"
        \/ (NumericTokens = <<>> /\ ~HasFullCoveragePhrase /\ ~HasVariableKeyword))
      => call.ret = ParsedAmount(Null, FALSE, FALSE, FALSE, <<>>))

\* C14 amended: null, undefined and the empty text give value null, the three
\* flags false and the empty string as originalText; a non-empty text with no
\* numeric token and no full-coverage or variable keyword gives value null,
\* isFullTuition and isVariable false, the text itself as originalText, and
\* isRange true exactly when the text has an "up to" or "between " phrase.
C14_NonNumeric ==
  (call.fn = "parse" /\ call.returned) =>
    /\ Falsy(call.arg) => call.ret = ParsedAmount(Null, FALSE, FALSE, FALSE, <<>>)
    /\ (~Falsy(call.arg) /\ NumericTokens = <<>>
          /\ ~HasFullCoveragePhrase /\ ~HasVariableKeyword) =>
         /\ call.ret.value = Null
         /\ ~call.ret.isFullTuition
         /\ ~call.ret.isVariable
         /\ call.ret.originalText = call.arg.text
         /\ call.ret.isRange <=>
              (UpToPattern(call.arg.text) \/ BetweenPattern(call.arg.text))

\* a text of words only that reads as a range
C14_Witness ==
  /\ Parsed
  /\ NumericTokens = <<>>
  /\ ~HasFullCoveragePhrase
  /\ ~HasVariableKeyword
  /\ call.ret.isRange
  /\ call.ret.value = Null
  /\ call.ret.originalText # <<>>

----------------------------------------------------------------------------
\* C15: the list normalizeDegree returns for a string or a list of strings has
\* no two equal entries; "MS/PhD" gives exactly Masters and PhD.
C15_NoDuplicateDegrees ==
  (call.fn = "normalizeDegree" /\ call.returned) =>
    /\ \A i, j \in 1..Len(call.ret) : call.ret[i] = call.ret[j] => i = j
    /\ call.arg = [isArray |-> FALSE, items |-> <<Chars("MS/PhD")>>] =>
         /\ Len(call.ret) = 2
         /\ { call.ret[i] : i \in 1..2 } = {Chars("Masters"), Chars("PhD")}

\* two spellings of one level, and the same level in two entries of a list
C15_Witness ==
  /\ call.fn = "normalizeDegree"
  /\ call.returned
  /\ \/ call.arg = [isArray |-> FALSE, items |-> <<Chars("MS/Masters")>>]
     \/ call.arg = [isArray |-> TRUE, items |-> <<Chars("ms"), Chars("MS")>>]
  /\ call.ret = <<Chars("Masters")>>

----------------------------------------------------------------------------
\* Deadline texts as the claims describe them

DateNormalized == call.fn = "normalizeDate" /\ call.returned

\* YYYY-MM-DDTHH:mm:ss.sssZ, with +/-YYYYYY for a year outside 0..9999
IsFullIso(s) ==
  LET t == IF s # <<>> /\ s[1] \in {"+", "-"} THEN SubSeq(s, 4, Len(s)) ELSE s
  IN /\ Len(t) = 24
     /\ s # <<>> /\ s[1] \in {"+", "-"} => AllDigits(SubSeq(s, 2, 3))
     /\ \A i \in 1..24 :
          IF i \in {5, 8} THEN t[i] = "-"
          ELSE IF i = 11 THEN t[i] = "T"
          ELSE IF i \in {14, 17} THEN t[i] = ":"
          ELSE IF i = 20 THEN t[i] = "."
          ELSE IF i = 24 THEN t[i] = "Z"
          ELSE IsDigit(t[i])

\* one of the parse steps of normalizeDate yields a valid date
SomeStepParses(tz, text) ==
  \/ ParseISO(tz, text).valid
  \/ MatchingFormat(text) # 0
  \/ DateParse(tz, text).valid

\* C16: normalizeDate does not throw and returns a string for every input: a
\* full ISO-8601 string when a parse step succeeds on the text, the text as it
\* was given otherwise; normalizing what it returned gives the same again.
C16_NormalizeDateTotal ==
  DateNormalized =>
    /\ ~call.ret.threw
    /\ IsFullIso(call.ret.value) \/ call.ret.value = StringOf(call.arg.date)
    /\ call.arg.date.type = "string" =>
         IF SomeStepParses(call.arg.tz, call.arg.date.text)
         THEN IsFullIso(call.ret.value)
         ELSE call.ret.value = call.arg.date.text
    /\ NormalizeDate(call.arg.tz, DateInput("string", call.ret.value, InvalidDate))
         = call.ret

\* an argument on which the try block throws, and a text no step can parse
C16_Witness ==
  /\ DateNormalized
  /\ \/ call.arg.date.type = "null" /\ call.ret.value = Chars("null")
     \/ call.arg.date.type = "date" /\ call.ret.value = Chars("Invalid Date")
     \/ call.arg.date.text = Chars("Rolling") /\ call.ret.value = Chars("Rolling")

\* the year, month and day written in a full ISO-8601 string
IsoYear(s) == ParseInt(SubSeq(s, 1, 4))

IsoMonth(s) == ParseInt(SubSeq(s, 6, 7))

IsoDay(s) == ParseInt(SubSeq(s, 9, 10))

\* C17: a deadline text in one of the numeric patterns is emitted as the
\* calendar date its digit groups denote (the four-digit group as year, the
\* other two as month and day), not rolled over into another month or year;
\* "31/12/2024" gives 2024-12-31T00:00:00.000Z.
C17_NoRollOver ==
  (DateNormalized /\ call.arg.date.type = "string"
                  /\ MatchingFormat(call.arg.date.text) # 0) =>
    LET text == call.arg.date.text
        g == FormatMatch(text, MatchingFormat(text))
        year == IF Len(g[1]) = 4 THEN g[1] ELSE g[3]
        p == IF Len(g[1]) = 4 THEN g[2] ELSE g[1]
        q == IF Len(g[1]) = 4 THEN g[3] ELSE g[2]
        out == call.ret.value
    IN /\ IsFullIso(out)
       /\ out[1] \notin {"+", "-"}
       /\ IsoYear(out) = ParseInt(year)
       /\ \/ IsoMonth(out) = ParseInt(p) /\ IsoDay(out) = ParseInt(q)
          \/ IsoMonth(out) = ParseInt(q) /\ IsoDay(out) = ParseInt(p)
       /\ text = Chars("31/12/2024") => out = Chars("2024-12-31T00:00:00.000Z")

----------------------------------------------------------------------------
\* C18: for every string, normalizeURL returns the trimmed string when that
\* starts with http:// or https:// and https:// followed by the trimmed
\* string otherwise, also when the result is not a well-formed URL; it does
\* not throw, and what it returns starts with http:// or https://.
C18_NormalizeURL ==
  (call.fn = "normalizeURL" /\ call.returned /\ call.arg.type = "string") =>
    LET trimmed == Trim(call.arg.text)
        prefixed == MatchesAt(trimmed, Chars("http://"), 1) \/ MatchesAt(trimmed, Chars("https://"), 1)
    IN /\ ~call.ret.threw
       /\ call.ret.value = JsValue("string", IF prefixed THEN trimmed ELSE Chars("https://") \o trimmed)
       /\ \/ MatchesAt(call.ret.value.text, Chars("http://"), 1)
          \/ MatchesAt(call.ret.value.text, Chars("https://"), 1)

----------------------------------------------------------------------------
\* Deadlines as the claims describe them

\* the day count of the call: daysUntil(deadline) at the time of the call
DayCount == DaysUntil(call.arg.tz, call.arg.now, call.arg.deadline)

\* the deadline is a date, and its day (local time) is before today
DeadlineInThePast ==
  LET d == call.arg.deadline
      past(date) ==
        /\ date.valid
        /\ LocalDay(call.arg.tz, date) < LocalDay(call.arg.tz, call.arg.now)
  IN past(IF d.type = "date" THEN d.date
          ELSE IF d.type = "string" THEN DateParse(call.arg.tz, d.text)
          ELSE InvalidDate)

\* C19: isWithinDays(d, days) is true exactly when daysUntil(d) is not null,
\* at least 0 and at most days; it is false for every deadline in the past
\* whatever days >= 0 is, false for a deadline that is missing or cannot be
\* parsed, and stays true when days grows.
C19_IsWithinDays ==
  (call.fn = "isWithinDays" /\ call.returned) =>
    /\ LET exactly(n) ==
             /\ call.ret <=> (n # Null /\ n[1] >= 0 /\ n[1] <= call.arg.days)
             /\ n = Null => ~call.ret
       IN exactly(DayCount)
    /\ DeadlineInThePast => ~call.ret
    /\ call.ret =>
         \A more \in DaysArguments :
           more >= call.arg.days =>
             IsWithinDays(call.arg.tz, call.arg.now, call.arg.deadline, more)

\* C20: categorizeUrgency is a function of n = daysUntil(deadline): none when
\* n is null or negative, urgent for 0..30, soon for 31..60, later for 61..90,
\* none above 90; it is urgent exactly when isWithinDays(deadline, 30) is true.
C20_CategorizeUrgency ==
  (call.fn = "categorizeUrgency" /\ call.returned) =>
    /\ call.ret \in {"urgent", "soon", "later", "none"}
    /\ LET table(n) ==
             /\ n = Null => call.ret = "none"
             /\ n # Null =>
                  /\ n[1] < 0 => call.ret = "none"
                  /\ (0 <= n[1] /\ n[1] <= 30) => call.ret = "urgent"
                  /\ (30 < n[1] /\ n[1] <= 60) => call.ret = "soon"
                  /\ (60 < n[1] /\ n[1] <= 90) => call.ret = "later"
                  /\ n[1] > 90 => call.ret = "none"
       IN table(DayCount)
    /\ call.ret = "urgent" <=>
         IsWithinDays(call.arg.tz, call.arg.now, call.arg.deadline, 30)

\* a deadline exactly 90 days ahead
C20_Witness ==
  /\ call.fn = "categorizeUrgency"
  /\ call.returned
  /\ DayCount = <<90>>
  /\ call.ret = "later"

\* the entries of a list of errors or warnings that name a field
OfField(list, field) == SelectSeq(list, LAMBDA e : e.field = field)

\* C21: isValid is true exactly when the error list is empty; a required
\* field that is missing or empty contributes exactly one error, of severity
\* critical, and no warning; a value longer than its maximum length
\* contributes exactly one warning and no error.
C21_Validate ==
  (call.fn = "validate" /\ call.returned) =>
    /\ call.ret.isValid <=> call.ret.errors = <<>>
    /\ \A k \in 1..Len(SCHOLARSHIP_SCHEMA.required) :
         LET field == SCHOLARSHIP_SCHEMA.required[k]
         IN MissingOrEmpty(call.arg[field]) =>
              /\ Len(OfField(call.ret.errors, field)) = 1
              /\ OfField(call.ret.errors, field)[1].severity = "critical"
              /\ OfField(call.ret.warnings, field) = <<>>
    /\ \A field \in DOMAIN SCHOLARSHIP_SCHEMA.constraints :
         ( /\ ~MissingOrEmpty(call.arg[field])
           /\ "maxLength" \in DOMAIN SCHOLARSHIP_SCHEMA.constraints[field]
           /\ Len(StringOfValue(call.arg[field])) > SCHOLARSHIP_SCHEMA.constraints[field].maxLength )
         => /\ Len(OfField(call.ret.warnings, field)) = 1
            /\ OfField(call.ret.errors, field) = <<>>

\* a record with no link and an over-long name: one critical error, and a
\* warning for the name
C21_Witness ==
  /\ call.fn = "validate"
  /\ call.returned
  /\ MissingOrEmpty(call.arg.link)
  /\ Len(call.arg.name.text) > SCHOLARSHIP_SCHEMA.constraints.name.maxLength
  /\ ~call.ret.isValid
  /\ Len(call.ret.errors) = 1
  /\ OfField(call.ret.warnings, "name") # <<>>

\* the requested limit is a number: an optional sign and decimal digits
IsIntegerText(text) ==
  LET digits == IF text # <<>> /\ text[1] \in {"+", "-"} THEN Tail(text) ELSE text
  IN digits # <<>> /\ AllDigits(digits)

\* the limit of the query as the claim reads it: the number, clamped to
\* [1, 100]; 50 when it is absent or not a number
ClaimedLimit ==
  LET l == call.arg.query.limit
      text == Trim(l.text)
  IN IF l.type # "string" \/ ~IsIntegerText(text) THEN 50
     ELSE LET clamp(n) == Max(1, Min(100, n))
          IN clamp(Signed(IF text[1] = "-" THEN "-" ELSE "+",
                          ParseInt(IF text[1] \in {"+", "-"} THEN Tail(text) ELSE text)))

\* the records whose country and degree contain the requested texts
Matching ==
  LET q == call.arg.query
      contains(value, wanted) ==
        \/ wanted.type # "string"
        \/ \E k \in 1..Len(value) : Includes(ToLowerCase(value[k]), ToLowerCase(wanted.text))
  IN SelectSeq(call.arg.all,
       LAMBDA s : /\ contains(IF s.country.type = "array" THEN s.country.text
                              ELSE <<s.country.text>>, q.country)
                  /\ contains(s.degree.text, q.degree))

C23_FetchAttempts ==
  (fetch.result = "failed" /\ fetch.failures = fetch.fetches) =>
    fetch.fetches <= config.retry.retries + 1

\* the tasks the pool has not started
Waiting == { i \in Tasks : pc[i] \in {"idle", "queued"} }

\* C24: extractors are admitted in submission order (the extractors started
\* are at every moment the first ones of the submitted list, the queue holds
\* the others in that order), and no slot is idle while an extractor is
\* queued.
C24_AdmissionOrder ==
  /\ \A i \in Tasks, j \in Tasks : (i < j /\ j \notin Waiting) => i \notin Waiting
  /\ \A k \in 1..(Len(queue) - 1) : queue[k] < queue[k + 1]
  /\ runState = "running" =>
       /\ { queue[k] : k \in 1..Len(queue) } = Waiting
       /\ queue # <<>> => Cardinality(InFlight) = config.concurrency

\* the first extractor has finished, the second one has taken its slot and
\* the third one is still queued
C24_Witness ==
  /\ N = 3
  /\ config.concurrency = 1
  /\ pc[1] = "settled"
  /\ pc[2] \in {"scraping", "backoff"}
  /\ queue = <<3>>

\* C25: a source whose extractor returned a list with a malformed record is
\* still reported as successful, and the well-formed records of the list are
\* in getScholarships(summary).
C25_MalformedTolerated ==
  runState = "returned" =>
    \A i \in Tasks :
      hist[i].returned # <<>> =>
        /\ summary.results[i].success
        /\ \A k \in 1..Len(hist[i].returned[1]) :
             LET raw == hist[i].returned[1][k]
             IN ~NormalizeThrows(raw) =>
                  \E n \in 1..Len(GetScholarships(summary)) :
                    GetScholarships(summary)[n] = Normalize(raw)

----------------------------------------------------------------------------
\* C26: a degree fragment with no exact synonym match and at least one
\* synonym key as a substring maps to the level of a longest matching key,
\* whatever the table order; 'postdoctoral fellow' maps to Postdoc.
C26_LongestKey ==
  (call.fn = "normalizeDegree" /\ call.returned /\ ~call.arg.isArray) =>
    LET normalized == ToLowerCase(Trim(call.arg.items[1]))
        keys == 1..Len(DegreeMapping)
        matching == { k \in keys : Includes(normalized, DegreeMapping[k][1]) }
        longest == { k \in matching :
                       \A m \in matching :
                         Len(DegreeMapping[m][1]) <= Len(DegreeMapping[k][1]) }
    IN /\ ( /\ SplitDegrees(call.arg.items[1]) = <<Trim(call.arg.items[1])>>
            /\ \A k \in keys : DegreeMapping[k][1] # normalized
            /\ matching # {} ) =>
              \E k \in longest : call.ret = <<DegreeMapping[k][2]>>
       /\ normalized = Chars("postdoctoral fellow") => call.ret = <<Chars("Postdoc")>>

----------------------------------------------------------------------------
\* C27: of two overlapping scrape() invocations on one dynamic extractor,
\* each uses a browser session it alone owns: no two running invocations
\* hold the same session, and the session of an invocation that is still
\* creating its page or extracting has not been closed.
C27_OwnSession ==
  LET using(k) == overlap.scrape[k].pc \in {"newPage", "extract"}
      holding(k) == overlap.scrape[k].pc \in {"newPage", "extract", "finally"}
                      /\ overlap.scrape[k].browser # 0
  IN /\ (holding(1) /\ holding(2)) => overlap.scrape[1].browser # overlap.scrape[2].browser
     /\ \A k \in {1, 2} : using(k) => overlap.scrape[k].browser \in overlap.openBrowsers

----------------------------------------------------------------------------
\* C28: when every scrape() attempt settles, a running scrapeAll eventually
\* returns a summary with exactly one result per extractor, in list order,
\* every extractor having been started and invoked at most retries + 1 times.
C28_Terminates ==
  (runState = "running") ~>
    ( /\ runState = "returned"
      /\ Len(summary.results) = N
      /\ \A i \in Tasks :
           /\ summary.results[i].source = scrapers[i].name
           /\ hist[i].calls >= 1
           /\ hist[i].calls <= config.retry.retries + 1 )

\* a run with more extractors than slots has returned, one extractor having
\* used all its attempts and another having succeeded at its first
C28_Witness ==
  /\ runState = "returned"
  /\ N > config.concurrency
  /\ config.retry.retries >= 1
  /\ \E i, j \in Tasks :
       /\ hist[i].calls = config.retry.retries + 1
       /\ ~summary.results[i].success
       /\ hist[j].calls = 1
       /\ summary.results[j].success

----------------------------------------------------------------------------
\* C30: after any sequence of setFilter and resetAll calls, hasActiveFilters()
\* is true iff getActiveFilters() is non-empty; setFilter with a name other
\* than the four filter names leaves the four values unchanged; resetAll
\* restores 'any', 'any', '', ''.
C30_FilterState ==
  /\ [](HasActiveFilters(filterState) <=> DOMAIN GetActiveFilters(filterState) # {})
  /\ [](filterState.lastCall.method = "resetAll" =>
          /\ filterState.amountRange = "any"
          /\ filterState.deadlineRange = "any"
          /\ filterState.country = ""
          /\ filterState.degree = "")
  /\ [][( /\ filterState'.lastCall.method = "setFilter"
          /\ filterState'.lastCall.filterName
               \notin {"amountRange", "deadlineRange", "country", "degree"} )
        => [filterState' EXCEPT !.lastCall = filterState.lastCall] = filterState]_vars

\* an unknown name was given while the degree filter alone was active
C30_Witness ==
  /\ filterState.lastCall = [method |-> "setFilter", filterName |-> "sortBy"]
  /\ filterState.degree = "PhD"
  /\ filterState.country = ""
  /\ filterState.amountRange = "any"
  /\ filterState.deadlineRange = "any"

----------------------------------------------------------------------------
\* C29: applyFilters on a list of canonical records and any FilterState never
\* throws and returns a sub-list of its input in the same relative order;
\* with the degree filter alone, or the country filter alone, it returns the
\* records that have a matching degree, or country, element.
C29_ApplyFilters ==
  (call.fn = "applyFilters" /\ call.returned) =>
    LET input == call.arg.scholarships
        fs == call.arg.filterState
        elements(v) == IF v.type = "array" THEN { v.text[k] : k \in 1..Len(v.text) }
                       ELSE IF v.type = "string" THEN {v.text} ELSE {}
        matches(v, text) ==
          \E e \in elements(v) : Trim(ToLowerCase(e)) = Trim(ToLowerCase(text))
        others == fs.amountRange = "any" /\ fs.deadlineRange = "any"
    IN /\ call.ret.kind = "return"
       /\ \E at \in [1..Len(call.ret.value) -> 1..Len(input)] :
            /\ \A k \in 1..Len(call.ret.value) : call.ret.value[k] = input[at[k]]
            /\ \A j, k \in 1..Len(call.ret.value) : j < k => at[j] < at[k]
       /\ (others /\ fs.country = <<>> /\ fs.degree # <<>>) =>
            call.ret.value = SelectSeq(input, LAMBDA s : matches(s.degree, fs.degree))
       /\ (others /\ fs.degree = <<>> /\ fs.country # <<>>) =>
            call.ret.value = SelectSeq(input, LAMBDA s : matches(s.country, fs.country))

====
